---- MODULE Spec2Model ----
(***************************************************************************)
(* Model of the rubiks-solver crate: the cube transformation engine of     *)
(* src/cube/mod.rs and the IDA* search of src/search.rs.                   *)
(*                                                                         *)
(* Conventions.  An Option<T> is a sequence of length at most one: None is *)
(* << >> and Some(x) is << x >>.  Indices passed between operators are     *)
(* 0-based as in the source; the two operators that touch a matrix add one.*)
(* A Face is its colour matrix, a sequence of rows, each a sequence of     *)
(* colours (its size is the length).  A heuristic value (f32 in the        *)
(* source) is an exact fraction << numerator, denominator >>.              *)
(***************************************************************************)
EXTENDS Integers, Sequences, FiniteSets, TLC

VARIABLES
    cubes,          \* the Cube objects of the cube-engine specifications: name -> Cube
    steps,          \* number of mutating calls made so far (bounded)
    init_cube,      \* the caller's cube: scrambled, then handed to idastar
    algo,           \* scramble: the Vec<Turn> built so far
    prev_turn,      \* scramble: Option<Turn>
    scramble_k,     \* scramble: the argument k
    hname,          \* idastar: which heuristic function was passed
    root,           \* idastar: the root Node
    limit,          \* idastar: current threshold
    node_stack,     \* idastar: the explicit DFS stack (last element is the top)
    min_f,          \* idastar: smallest over-limit evaluation of this iteration
    node_visited,   \* idastar: number of nodes popped
    goal,           \* the node on which idastar returned, as an Option<Node>
    search_result,  \* Option<SearchResult> once idastar has returned
    iters,          \* the depth-first iterations run so far: limit, nodes popped
    cache,          \* search.rs ALL_POSSIBLE_SOLVED_CUBES_CACHE
    apsc,           \* all_possible_solved_cubes: its size argument, res, cube, position
    distance,       \* Option<usize>: what the caller's last hamming_distance call returned
    overflow_checks,\* the build: TRUE when integer overflow panics (debug), FALSE when it wraps
    callers,        \* the threads inside all_l0: thread -> position, iterator, min_dist
    cache_writes,   \* number of assignments made to ALL_POSSIBLE_SOLVED_CUBES_CACHE
    pc              \* position of the caller

vars == << cubes, steps, init_cube, algo, prev_turn, scramble_k, hname, root, limit,
           node_stack, min_f, node_visited, goal, search_result, iters, cache, apsc,
           distance, overflow_checks, callers, cache_writes, pc >>

\* ---------------------------------------------------------------- bounds
MaxSize == 3        \* cube sizes 1..MaxSize in the cube-engine specification
MaxSteps == 2       \* mutating calls per behaviour of the cube-engine specification
MaxAlgo == 2        \* length of the turn sequences tried by apply_algorithm
MaxPairSize == 2    \* cube sizes in the two-cube specification
MaxPairSteps == 2   \* mutating calls per behaviour of the two-cube specification
MaxGoalSize == 3    \* cube sizes passed to all_possible_solved_cubes
MaxPreTurns == 1    \* turns applied to the cube before scramble is called
MaxMixedSize == 2      \* sizes of the two cubes handed to hamming_distance
MaxDepth == 5          \* path_cost up to which a wrapping build's descent is followed
MaxThreads == 2        \* threads that call all_l0 at the same time
MaxScramble == 2    \* largest k passed to scramble before a search

\* ---------------------------------------------------------------- Option
None == << >>
Some(x) == << x >>
IsSome(o) == o # << >>
Unwrap(o) == o[1]

\* ---------------------------------------------------------------- stored arrays
\* An ndarray array or a Rust array is a stored value.  These operators give a
\* sequence, a matrix and a cube their stored form, element by element; the
\* value is the same.
RECURSIVE Owned1(_, _)
Owned1(s, n) == IF n = 0 THEN << >> ELSE Append(Owned1(s, n - 1), s[n])

RECURSIVE OwnedRows(_, _, _)
OwnedRows(m, n, w) == IF n = 0 THEN << >> ELSE Append(OwnedRows(m, n - 1, w), Owned1(m[n], w))

Owned2(m) == OwnedRows(m, Len(m), Len(m))

RECURSIVE OwnedFaces(_, _, _)
OwnedFaces(fs, n, w) == IF n = 0 THEN << >> ELSE Append(OwnedFaces(fs, n - 1, w), OwnedRows(fs[n], w, w))

OwnedCube(c) ==
    [faces |-> OwnedFaces(c.faces, 6, c.size), dir_order |-> Owned1(c.dir_order, 6), size |-> c.size]

\* ---------------------------------------------------------------- enums
Colors == {"White", "Red", "Blue", "Yellow", "Orange", "Green"}
TurnDirs == {"Clockwise", "CounterClockwise"}
CubeAxes == {"X", "Y", "Z"}
FaceDirs == {"Up", "Down", "Right", "Left", "Front", "Back"}

get_reversed(turn_dir) ==
    IF turn_dir = "Clockwise" THEN "CounterClockwise" ELSE "Clockwise"

ReverseSeq(s) == [i \in 1..Len(s) |-> s[Len(s) + 1 - i]]

\* ---------------------------------------------------------------- Face
Face_new(size, color) == [r \in 1..size |-> [c \in 1..size |-> color]]

\* swap_axes(0, 1) of an N x N matrix
swap_axes(m) == [r \in 1..Len(m) |-> [c \in 1..Len(m) |-> m[c][r]]]
\* invert_axis(Axis(1)): reverse the column index
invert_axis1(m) == [r \in 1..Len(m) |-> [c \in 1..Len(m) |-> m[r][Len(m) + 1 - c]]]
\* invert_axis(Axis(0)): reverse the row index
invert_axis0(m) == [r \in 1..Len(m) |-> [c \in 1..Len(m) |-> m[Len(m) + 1 - r][c]]]

rotate(face, turn_dir) ==
    IF turn_dir = "Clockwise" THEN invert_axis1(swap_axes(face))
                              ELSE invert_axis0(swap_axes(face))

get_slice(face, i, is_column) ==
    IF ~is_column THEN face[i + 1]
    ELSE [r \in 1..Len(face) |-> face[r][i + 1]]

set_slice(face, i, is_column, slice) ==
    IF ~is_column THEN [face EXCEPT ![i + 1] = slice]
    ELSE [r \in 1..Len(face) |-> [face[r] EXCEPT ![i + 1] = slice[r]]]

\* MUTANT of is_single_color: only the first row is compared
is_single_color_first_row(face) ==
    LET reference_color == face[1][1]
    IN \A c \in 1..Len(face) : face[1][c] = reference_color

is_single_color(face) ==
    LET reference_color == face[1][1]
    IN \A r \in 1..Len(face) : \A c \in 1..Len(face) : face[r][c] = reference_color

\* ---------------------------------------------------------------- FaceDir
ALL_FACE_DIR == << "Up", "Down", "Left", "Right", "Front", "Back" >>

\* MUTANT of get_dir_surrounding_axis: the order is not reversed for CounterClockwise
get_dir_surrounding_axis_one_way(axis, turn_dir) ==
    CASE axis = "X" -> << "Back", "Down", "Front", "Up" >>
      [] axis = "Y" -> << "Back", "Right", "Front", "Left" >>
      [] axis = "Z" -> << "Down", "Left", "Up", "Right" >>

get_dir_surrounding_axis(axis, turn_dir) ==
    LET result == CASE axis = "X" -> << "Back", "Down", "Front", "Up" >>
                    [] axis = "Y" -> << "Back", "Right", "Front", "Left" >>
                    [] axis = "Z" -> << "Down", "Left", "Up", "Right" >>
    IN IF turn_dir = "CounterClockwise" THEN ReverseSeq(result) ELSE result

get_axis(face_dir) ==
    CASE face_dir \in {"Up", "Down"} -> "Y"
      [] face_dir \in {"Right", "Left"} -> "X"
      [] face_dir \in {"Front", "Back"} -> "Z"

is_positive(face_dir) == face_dir \in {"Up", "Right", "Front"}

\* MUTANT of get_rotate_axis_and_dir: the sign of the face is ignored
get_rotate_axis_and_dir_unsigned(face_dir, turn_dir) == << get_axis(face_dir), turn_dir >>

\* returns << axis, turn_dir >>
get_rotate_axis_and_dir(face_dir, turn_dir) ==
    << get_axis(face_dir),
       IF is_positive(face_dir) THEN turn_dir ELSE get_reversed(turn_dir) >>

\* position of x in the sequence s, 0-based, as an Option
position(s, x) ==
    IF \E i \in 1..Len(s) : s[i] = x
    THEN Some((CHOOSE i \in 1..Len(s) : s[i] = x /\ \A j \in 1..(i - 1) : s[j] # x) - 1)
    ELSE None

\* MUTANT of apply_rotation: the index saturates instead of wrapping around
apply_rotation_no_wrap(face_dir, axis, turn_dir) ==
    LET surrounding_dirs == get_dir_surrounding_axis(axis, turn_dir)
        p == position(surrounding_dirs, face_dir)
    IN IF IsSome(p) THEN surrounding_dirs[(IF Unwrap(p) + 1 > 3 THEN 3 ELSE Unwrap(p) + 1) + 1]
       ELSE face_dir

apply_rotation(face_dir, axis, turn_dir) ==
    LET surrounding_dirs == get_dir_surrounding_axis(axis, turn_dir)
        p == position(surrounding_dirs, face_dir)
    IN IF IsSome(p) THEN surrounding_dirs[((Unwrap(p) + 1) % 4) + 1] ELSE face_dir

\* ---------------------------------------------------------------- Turn
Turn_new(face_dir, turn_dir) == [face_dir |-> face_dir, turn_dir |-> turn_dir]

Turns == {Turn_new(fd, td) : fd \in FaceDirs, td \in TurnDirs}

\* MUTANT of is_reversed: the directions are compared for equality
is_reversed_same_dir(self, other) ==
    self.face_dir = other.face_dir /\ self.turn_dir = other.turn_dir

is_reversed(self, other) ==
    self.face_dir = other.face_dir /\ self.turn_dir = get_reversed(other.turn_dir)

\* ---------------------------------------------------------------- Cube
INIT_CONFIG == << << "Up", "Yellow" >>, << "Down", "White" >>, << "Left", "Green" >>,
                  << "Right", "Blue" >>, << "Front", "Orange" >>, << "Back", "Red" >> >>

Cube_new(size) ==
    OwnedCube([faces |-> [i \in 1..6 |-> Face_new(size, INIT_CONFIG[i][2])],
               dir_order |-> [i \in 1..6 |-> INIT_CONFIG[i][1]],
               size |-> size])

get_dir_index(self, face_dir) == Unwrap(position(self.dir_order, face_dir))

get_face(self, face_dir) == self.faces[get_dir_index(self, face_dir) + 1]

get_axes_order(face_dir) ==
    CASE face_dir = "Up" -> << "Front", "Right" >>
      [] face_dir = "Down" -> << "Back", "Right" >>
      [] face_dir = "Right" -> << "Down", "Back" >>
      [] face_dir = "Left" -> << "Down", "Front" >>
      [] face_dir = "Front" -> << "Down", "Right" >>
      [] face_dir = "Back" -> << "Down", "Left" >>

check_is_from_start(d, axis_of_rotation, is_pos) ==
    \E j \in 1..2 :
        /\ get_axis(get_axes_order(d)[j]) = axis_of_rotation
        /\ is_positive(get_axes_order(d)[j]) # is_pos

\* MUTANT of check_is_column: the second axis is compared instead of the first
check_is_column_second_axis(d, axis_of_rotation) ==
    LET first_axis == get_axis(get_axes_order(d)[2])
    IN axis_of_rotation # first_axis

check_is_column(d, axis_of_rotation) ==
    LET first_axis == get_axis(get_axes_order(d)[1])
    IN axis_of_rotation # first_axis

\* MUTANT of check_is_reversed: the Back face is not reversed about X
check_is_reversed_no_back(d, axis_of_rotation, rotate_dir) ==
    CASE axis_of_rotation = "X" ->
            IF rotate_dir = "Clockwise" THEN d = "Down" ELSE d = "Up"
      [] axis_of_rotation = "Y" -> FALSE
      [] axis_of_rotation = "Z" ->
            IF rotate_dir = "Clockwise" THEN d \in {"Down", "Up"}
                                        ELSE d \in {"Right", "Left"}

check_is_reversed(d, axis_of_rotation, rotate_dir) ==
    CASE axis_of_rotation = "X" ->
            \/ d = "Back"
            \/ IF rotate_dir = "Clockwise" THEN d = "Down" ELSE d = "Up"
      [] axis_of_rotation = "Y" -> FALSE
      [] axis_of_rotation = "Z" ->
            IF rotate_dir = "Clockwise" THEN d \in {"Down", "Up"}
                                        ELSE d \in {"Right", "Left"}

\* the body of the for loop of rotate_band, from the n-th direction of ds on
RECURSIVE rotate_band_loop(_, _, _, _, _, _)
rotate_band_loop(self, turn, layer, ds, n, prev_slice) ==
    IF n > Len(ds) THEN self
    ELSE
      LET ad == get_rotate_axis_and_dir(turn.face_dir, turn.turn_dir)
          d == ds[n]
          i == IF check_is_from_start(d, ad[1], is_positive(turn.face_dir))
               THEN layer - 1 ELSE self.size - layer
          is_column == check_is_column(d, ad[1])
          curr_slice == get_slice(get_face(self, d), i, is_column)
          ps == IF check_is_reversed(d, ad[1], ad[2])
                THEN ReverseSeq(Unwrap(prev_slice)) ELSE Unwrap(prev_slice)
          written == IF IsSome(prev_slice)
                  THEN [self EXCEPT !.faces[get_dir_index(self, d) + 1] =
                                        set_slice(@, i, is_column, ps)]
                  ELSE self
      IN rotate_band_loop(written, turn, layer, ds, n + 1, Some(curr_slice))

\* MUTANT of rotate_band: the loop does not come back to the first face
rotate_band_open_cycle(self, turn, layer) ==
    LET ad == get_rotate_axis_and_dir(turn.face_dir, turn.turn_dir)
        surrounding_dirs == get_dir_surrounding_axis(ad[1], ad[2])
    IN rotate_band_loop(self, turn, layer, surrounding_dirs, 1, None)

rotate_band(self, turn, layer) ==
    LET ad == get_rotate_axis_and_dir(turn.face_dir, turn.turn_dir)
        surrounding_dirs == get_dir_surrounding_axis(ad[1], ad[2])
    IN rotate_band_loop(self, turn, layer,
                        surrounding_dirs \o << surrounding_dirs[1] >>, 1, None)

\* What a call that panics yields instead of a value.
Panic == [panic |-> TRUE]

\* MUTANT of turn_layer: the face grid of a negative face is rotated against
\* the requested direction
turn_layer_effective_face(self, turn, layer) ==
    IF layer = 0 THEN Panic
    ELSE IF layer > self.size THEN Panic
    ELSE LET turned == IF layer = 1
                       THEN [self EXCEPT !.faces[get_dir_index(self, turn.face_dir) + 1] =
                                             rotate(@, get_rotate_axis_and_dir(turn.face_dir,
                                                                               turn.turn_dir)[2])]
                       ELSE self
         IN OwnedCube(rotate_band(turned, turn, layer))

\* MUTANT of turn_layer: the face opposite the turned one is rotated as well
turn_layer_both_faces(self, turn, layer) ==
    IF layer = 0 THEN Panic
    ELSE IF layer > self.size THEN Panic
    ELSE LET turned == IF layer = 1
                       THEN [self EXCEPT !.faces[get_dir_index(self, turn.face_dir) + 1] =
                                             rotate(@, turn.turn_dir),
                                         !.faces[get_dir_index(self,
                                                    CHOOSE d \in FaceDirs :
                                                        /\ d # turn.face_dir
                                                        /\ get_axis(d) = get_axis(turn.face_dir)) + 1] =
                                             rotate(@, turn.turn_dir)]
                       ELSE self
         IN OwnedCube(rotate_band(turned, turn, layer))

\* MUTANT of turn_layer: the innermost layer carries the opposite face along
turn_layer_last_layer_face(self, turn, layer) ==
    IF layer = 0 THEN Panic
    ELSE IF layer > self.size THEN Panic
    ELSE LET turned == IF layer = 1
                       THEN [self EXCEPT !.faces[get_dir_index(self, turn.face_dir) + 1] =
                                             rotate(@, turn.turn_dir)]
                       ELSE IF layer = self.size
                       THEN [self EXCEPT !.faces[get_dir_index(self,
                                                    CHOOSE d \in FaceDirs :
                                                        /\ d # turn.face_dir
                                                        /\ get_axis(d) = get_axis(turn.face_dir)) + 1] =
                                             rotate(@, get_reversed(turn.turn_dir))]
                       ELSE self
         IN OwnedCube(rotate_band(turned, turn, layer))

\* MUTANT of turn_layer: layer is taken as 0-indexed
turn_layer_zero_based(self, turn, layer) ==
    IF layer >= self.size THEN Panic
    ELSE LET turned == IF layer = 0
                       THEN [self EXCEPT !.faces[get_dir_index(self, turn.face_dir) + 1] =
                                             rotate(@, turn.turn_dir)]
                       ELSE self
         IN OwnedCube(rotate_band(turned, turn, layer + 1))

\* layer == 0 is the explicit panic!; with layer > size the first get_slice of
\* rotate_band indexes out of bounds (or size - layer underflows) before any
\* write, and no face is rotated because layer # 1.
turn_layer(self, turn, layer) ==
    IF layer = 0 THEN Panic
    ELSE IF layer > self.size THEN Panic
    ELSE LET turned == IF layer = 1
                       THEN [self EXCEPT !.faces[get_dir_index(self, turn.face_dir) + 1] =
                                             rotate(@, turn.turn_dir)]
                       ELSE self
         IN OwnedCube(rotate_band(turned, turn, layer))

is_solved(self) == \A i \in 1..6 : is_single_color(self.faces[i])

RECURSIVE apply_algorithm(_, _)
apply_algorithm(self, turns) ==
    IF turns = << >> THEN self
    ELSE apply_algorithm(turn_layer(self, Head(turns), 1), Tail(turns))

\* MUTANT of rotate_whole_cube: the face grids are turned along with dir_order
rotate_whole_cube_turns_faces(self, axis, turn_dir) ==
    [self EXCEPT !.dir_order =
                    Owned1([i \in 1..6 |-> apply_rotation(self.dir_order[i], axis, turn_dir)], 6),
                 !.faces =
                    OwnedFaces([i \in 1..6 |-> rotate(self.faces[i], turn_dir)], 6, self.size)]

rotate_whole_cube(self, axis, turn_dir) ==
    [self EXCEPT !.dir_order =
        Owned1([i \in 1..6 |-> apply_rotation(self.dir_order[i], axis, turn_dir)], 6)]

\* MUTANT of face_differences: the other cube's slot is off by one
face_differences_shifted(self, other, i) ==
    Cardinality({rc \in (1..self.size) \X (1..self.size) :
                    self.faces[i][rc[1]][rc[2]] # other.faces[(i % 6) + 1][rc[1]][rc[2]]})

\* number of positions of face slot i (1-based) where the two cubes differ
face_differences(self, other, i) ==
    Cardinality({rc \in (1..self.size) \X (1..self.size) :
                    self.faces[i][rc[1]][rc[2]] # other.faces[i][rc[1]][rc[2]]})

RECURSIVE hamming_sum(_, _, _)
hamming_sum(self, other, i) ==
    IF i > 6 THEN 0
    ELSE face_differences(self, other, i) + hamming_sum(self, other, i + 1)

\* MUTANT of hamming_distance_panics: only a larger receiver is rejected
hamming_distance_panics_if_larger(self, other) == self.size > other.size

\* the size check that opens hamming_distance: TRUE when the call panics
hamming_distance_panics(self, other) == self.size # other.size

\* defined for cubes of equal size
hamming_distance(self, other) == hamming_sum(self, other, 1)


RECURSIVE push_spins(_, _)
\* for _ in 0..n { res.push(cube.clone()); cube.rotate_whole_cube(Z, Clockwise) }
push_spins(st, n) ==
    IF n = 0 THEN st
    ELSE push_spins([res |-> Append(st.res, st.cube),
                     cube |-> rotate_whole_cube(st.cube, "Z", "Clockwise")], n - 1)

RECURSIVE push_rings(_, _)
\* for _ in 0..n { the four spins; cube.rotate_whole_cube(Y, Clockwise) }
push_rings(st, n) ==
    IF n = 0 THEN st
    ELSE push_rings([res |-> push_spins(st, 4).res,
                     cube |-> rotate_whole_cube(push_spins(st, 4).cube, "Y", "Clockwise")],
                    n - 1)

all_possible_solved_cubes(size) ==
    LET s1 == push_rings([res |-> << >>, cube |-> Cube_new(size)], 4)
        s2 == push_spins([s1 EXCEPT !.cube = rotate_whole_cube(@, "X", "Clockwise")], 4)
        s3 == push_spins([s2 EXCEPT !.cube = rotate_whole_cube(
                                        rotate_whole_cube(@, "X", "Clockwise"),
                                        "X", "Clockwise")], 4)
    IN s3.res

\* ================================================================ search.rs
USIZE_MAX == 2147483647     \* stands for usize::MAX, the top of the integers TLC computes with
GIVE_UP_LIMIT == 28

\* MUTANT of Min: the larger of the two
Min_takes_larger(a, b) == IF a < b THEN b ELSE a

Min(a, b) == IF a < b THEN a ELSE b
Max(a, b) == IF a > b THEN a ELSE b

\* an f32 quotient n / d, kept exact
Quot(n, d) == << n, d >>
\* x.ceil() as usize: the cast saturates at usize::MAX
ceil_usize(x) ==
    LET c == IF x[1] % x[2] = 0 THEN x[1] \div x[2] ELSE (x[1] \div x[2]) + 1
    IN IF c >= USIZE_MAX THEN USIZE_MAX ELSE c

\* a + b leaves the range of usize
add_overflows(a, b) == b > USIZE_MAX - a
\* a + b as a build without overflow checks computes it
wrapping_add(a, b) == IF add_overflows(a, b) THEN a - (USIZE_MAX - b) - 1 ELSE a + b

\* h_calls is a history field, not a field of Node: the number of times
\* heuristic_function has run on this Node object's state
new_root(cube0) ==
    [state |-> cube0, prev_action |-> None, parent |-> None,
     path_cost |-> 0, evaluation |-> None, h_calls |-> 0]

\* root.clone(): a new Node object with the same fields
clone(self) == [self EXCEPT !.h_calls = 0]

\* MUTANT of is_goal: any instead of all
is_goal_any(self) == \E i \in 1..6 : is_single_color(self.state.faces[i])

\* MUTANT of is_goal: the root is never tested
is_goal_below_root(self) == IsSome(self.parent) /\ is_solved(self.state)

is_goal(self) == is_solved(self.state)

\* MUTANT of get_path: the action is pushed before the parent's path
RECURSIVE get_path_prepend(_)
get_path_prepend(self) ==
    IF IsSome(self.parent)
    THEN IF IsSome(self.prev_action)
         THEN << Unwrap(self.prev_action) >> \o get_path_prepend(Unwrap(self.parent))
         ELSE get_path_prepend(Unwrap(self.parent))
    ELSE << >>

RECURSIVE get_path(_)
get_path(self) ==
    IF IsSome(self.parent)
    THEN IF IsSome(self.prev_action)
         THEN Append(get_path(Unwrap(self.parent)), Unwrap(self.prev_action))
         ELSE get_path(Unwrap(self.parent))
    ELSE << >>

single_l0(c) == Quot(hamming_distance(c, Cube_new(2)), 12)

\* the value of the static after a call of all_l0
all_l0_cache(ch) == IF IsSome(ch) THEN ch ELSE Some(all_possible_solved_cubes(2))

RECURSIVE min_dist_loop(_, _, _, _)
min_dist_loop(c, goals, n, min_dist) ==
    IF n > Len(goals) THEN min_dist
    ELSE min_dist_loop(c, goals, n + 1, Min(min_dist, hamming_distance(c, goals[n])))

all_l0(c, ch) == Quot(min_dist_loop(c, Unwrap(all_l0_cache(ch)), 1, USIZE_MAX), 12)

Heuristics == {"single_l0", "all_l0"}

\* other functions a caller can pass as heuristic_function: the closures
\* |_| 27.0 and |_| 29.0, one below and one above GIVE_UP_LIMIT
FlatHeuristics == {"flat_27", "flat_29"}

\* |c| 2.0 * single_l0(c): a heuristic under which a child's own
\* path_cost + h can fall below its parent's evaluation
SteepHeuristics == {"twice_l0"}

\* |_| usize::MAX as f32: finite, non-negative, at the top of usize
HugeHeuristics == {"flat_max"}

\* heuristic_function(&self.state), for the function the caller passed
heuristic_function(hn, c, ch) ==
    CASE hn = "single_l0" -> single_l0(c)
      [] hn = "all_l0" -> all_l0(c, ch)
      [] hn = "flat_27" -> Quot(27, 1)
      [] hn = "flat_29" -> Quot(29, 1)
      [] hn = "twice_l0" -> Quot(2 * single_l0(c)[1], single_l0(c)[2])
      [] hn = "flat_max" -> Quot(USIZE_MAX, 1)
\* the static cache after that call
heuristic_cache(hn, ch) == IF hn = "all_l0" THEN all_l0_cache(ch) ELSE ch

\* MUTANT of get_evaluation: the parent's evaluation is not taken into account
RECURSIVE get_evaluation_no_max(_, _, _)
get_evaluation_no_max(self, hn, ch) ==
    IF IsSome(self.evaluation)
    THEN [f |-> Unwrap(self.evaluation), node |-> self, cache |-> ch, overflow |-> FALSE]
    ELSE LET new_h == ceil_usize(heuristic_function(hn, self.state, ch))
             ch1 == heuristic_cache(hn, ch)
             called == [self EXCEPT !.h_calls = @ + 1]
         IN IF ~IsSome(self.parent)
            THEN [f |-> new_h, node |-> called, cache |-> ch1, overflow |-> FALSE]
            ELSE LET pe == get_evaluation_no_max(Unwrap(self.parent), hn, ch1)
                     new_f == wrapping_add(self.path_cost, new_h)
                 IN [f |-> new_f,
                     node |-> [called EXCEPT !.evaluation = Some(new_f), !.parent = Some(pe.node)],
                     cache |-> pe.cache,
                     overflow |-> add_overflows(self.path_cost, new_h)]

\* Node::get_evaluation: the value returned, the node afterwards (with its
\* parent chain), the static cache afterwards, and whether path_cost + new_h
\* left the range of usize (the value is then the one a wrapping build returns)
RECURSIVE get_evaluation(_, _, _)
get_evaluation(self, hn, ch) ==
    IF IsSome(self.evaluation)
    THEN [f |-> Unwrap(self.evaluation), node |-> self, cache |-> ch, overflow |-> FALSE]
    ELSE LET new_h == ceil_usize(heuristic_function(hn, self.state, ch))
             ch1 == heuristic_cache(hn, ch)
             called == [self EXCEPT !.h_calls = @ + 1]
         IN IF ~IsSome(self.parent)
            THEN [f |-> new_h, node |-> called, cache |-> ch1, overflow |-> FALSE]
            ELSE LET pe == get_evaluation(Unwrap(self.parent), hn, ch1)
                     new_f == wrapping_add(self.path_cost, new_h)
                     f == Max(new_f, pe.f)
                 IN [f |-> f,
                     node |-> [called EXCEPT !.evaluation = Some(f), !.parent = Some(pe.node)],
                     cache |-> pe.cache,
                     overflow |-> add_overflows(self.path_cost, new_h)]

\* MUTANT of CHILD_TURNS: the loop runs over Right and Up only
CHILD_TURNS_two_faces ==
    << Turn_new("Right", "Clockwise"), Turn_new("Right", "CounterClockwise"),
       Turn_new("Up", "Clockwise"), Turn_new("Up", "CounterClockwise") >>

\* MUTANT of CHILD_TURNS: the loop runs over all six face directions
CHILD_TURNS_all_faces ==
    << Turn_new("Right", "Clockwise"), Turn_new("Right", "CounterClockwise"),
       Turn_new("Up", "Clockwise"), Turn_new("Up", "CounterClockwise"),
       Turn_new("Front", "Clockwise"), Turn_new("Front", "CounterClockwise"),
       Turn_new("Left", "Clockwise"), Turn_new("Left", "CounterClockwise"),
       Turn_new("Down", "Clockwise"), Turn_new("Down", "CounterClockwise"),
       Turn_new("Back", "Clockwise"), Turn_new("Back", "CounterClockwise") >>

\* the turns generate_children tries, in its loop order
CHILD_TURNS ==
    << Turn_new("Right", "Clockwise"), Turn_new("Right", "CounterClockwise"),
       Turn_new("Up", "Clockwise"), Turn_new("Up", "CounterClockwise"),
       Turn_new("Front", "Clockwise"), Turn_new("Front", "CounterClockwise") >>

RECURSIVE children_loop(_, _, _)
children_loop(parent, n, res) ==
    IF n > Len(CHILD_TURNS) THEN res
    ELSE IF IsSome(parent.prev_action) /\ is_reversed(Unwrap(parent.prev_action), CHILD_TURNS[n])
    THEN children_loop(parent, n + 1, res)
    ELSE children_loop(parent, n + 1,
            Append(res, [state |-> turn_layer(parent.state, CHILD_TURNS[n], 1),
                         prev_action |-> Some(CHILD_TURNS[n]),
                         parent |-> Some(parent),
                         path_cost |-> parent.path_cost + 1,
                         evaluation |-> None,
                         h_calls |-> 0]))

generate_children(parent) == children_loop(parent, 1, << >>)

\* ================================================================ cube engine
\* The search variables are not used by the cube-engine specifications.
SearchIdle ==
    /\ init_cube = None /\ algo = << >> /\ prev_turn = None /\ scramble_k = 0
    /\ hname = "none" /\ root = None /\ limit = 0 /\ node_stack = << >>
    /\ min_f = 0 /\ node_visited = 0 /\ goal = None /\ search_result = None
    /\ iters = << >> /\ cache = None
    /\ overflow_checks = TRUE
    /\ callers = << >> /\ cache_writes = 0

SearchUnchanged ==
    UNCHANGED << init_cube, algo, prev_turn, scramble_k, hname, root, limit,
                 node_stack, min_f, node_visited, goal, search_result, iters, cache,
                 overflow_checks, callers, cache_writes >>

\* all_possible_solved_cubes is not running
GoalsIdle == apsc = None

\* hamming_distance has not been called by the caller
PairIdle == distance = None

\* no thread is inside all_l0 and the static has not been assigned
ThreadsIdle == callers = << >> /\ cache_writes = 0

\* the turn sequences of length at most n
RECURSIVE Algos(_)
Algos(n) ==
    IF n = 0 THEN {<< >>}
    ELSE Algos(n - 1) \cup {Append(s, t) : s \in {x \in Algos(n - 1) : Len(x) = n - 1}, t \in Turns}

\* the cube-engine specifications stop after this many turns and rotations
StepBound == IF pc = "pair" THEN MaxPairSteps ELSE MaxSteps

\* cube.turn_layer(&turn, layer), layer in 0..size; a call that panics leaves
\* the caller at "panic" with the cube as the unwinding call left it
TurnLayer(who, turn, layer) ==
    /\ pc \in {"cube", "pair"}
    /\ steps < StepBound
    /\ layer \in 0..cubes[who].size
    /\ IF turn_layer(cubes[who], turn, layer) = Panic
       THEN /\ pc' = "panic"
            /\ UNCHANGED cubes
       ELSE /\ cubes' = [cubes EXCEPT ![who] = turn_layer(@, turn, layer)]
            /\ UNCHANGED pc
    /\ steps' = steps + 1
    /\ UNCHANGED << apsc, distance >>
    /\ SearchUnchanged

\* cube.rotate_whole_cube(axis, turn_dir)
RotateWholeCube(who, axis, turn_dir) ==
    /\ pc \in {"cube", "pair"}
    /\ steps < StepBound
    /\ cubes' = [cubes EXCEPT ![who] = rotate_whole_cube(@, axis, turn_dir)]
    /\ steps' = steps + 1
    /\ UNCHANGED << pc, apsc, distance >>
    /\ SearchUnchanged

\* cube.apply_algorithm(turns); it counts one step per turn
ApplyAlgorithm(who, turns) ==
    /\ pc \in {"cube", "pair"}
    /\ Len(turns) >= 2
    /\ steps + Len(turns) <= StepBound
    /\ cubes' = [cubes EXCEPT ![who] = apply_algorithm(@, turns)]
    /\ steps' = steps + Len(turns)
    /\ UNCHANGED << pc, apsc, distance >>
    /\ SearchUnchanged

\* a caller's x.hamming_distance(&y): both cubes are borrowed immutably
HammingDistance(x, y) ==
    /\ pc = "pair"
    /\ IF hamming_distance_panics(cubes[x], cubes[y])
       THEN /\ pc' = "panic"
            /\ UNCHANGED distance
       ELSE /\ distance' = Some(hamming_distance(cubes[x], cubes[y]))
            /\ UNCHANGED pc
    /\ UNCHANGED << cubes, steps, apsc >>
    /\ SearchUnchanged

\* one cube of any size 1..MaxSize, as Cube::new leaves it
InitCube ==
    /\ pc = "cube"
    /\ steps = 0
    /\ \E n \in 1..MaxSize : cubes = [who \in {"a"} |-> Cube_new(n)]
    /\ SearchIdle /\ GoalsIdle /\ PairIdle

NextCube ==
    \/ \E turn \in Turns, layer \in 0..MaxSize : TurnLayer("a", turn, layer)
    \/ \E axis \in CubeAxes, turn_dir \in TurnDirs : RotateWholeCube("a", axis, turn_dir)
    \/ \E turns \in Algos(MaxAlgo) : ApplyAlgorithm("a", turns)

SpecCube == InitCube /\ [][NextCube]_vars

\* two cubes a and b of one size 1..MaxPairSize, as Cube::new leaves them
InitPair ==
    /\ pc = "pair"
    /\ steps = 0
    /\ \E n \in 1..MaxPairSize : cubes = [who \in {"a", "b"} |-> Cube_new(n)]
    /\ SearchIdle /\ GoalsIdle /\ PairIdle

NextPair ==
    \/ \E who \in {"a", "b"}, turn \in Turns, layer \in 1..MaxPairSize :
          TurnLayer(who, turn, layer)
    \/ \E who \in {"a", "b"}, axis \in CubeAxes, turn_dir \in TurnDirs :
          RotateWholeCube(who, axis, turn_dir)

SpecPair == InitPair /\ [][NextPair]_vars

\* ================================================================ all_possible_solved_cubes
\* The body of all_possible_solved_cubes statement by statement.  apsc.at is
\* the next statement: in the nested loops ("ring"), the second loop ("up") or
\* the third ("down") a push or the Z rotation after it; "ring_turn" the Y
\* rotation closing a pass of the outer loop; "x1", "x2", "x3" the three X
\* rotations between the loops.  apsc.i and apsc.j count the passes of the
\* outer and the inner loop.
\* two cubes a and b whose sizes 1..MaxMixedSize are chosen independently
InitMixed ==
    /\ pc = "pair"
    /\ steps = 0
    /\ \E m \in 1..MaxMixedSize, n \in 1..MaxMixedSize :
          cubes = [who \in {"a", "b"} |-> IF who = "a" THEN Cube_new(m) ELSE Cube_new(n)]
    /\ SearchIdle /\ GoalsIdle /\ PairIdle

NextMixed ==
    \/ \E who \in {"a", "b"}, turn \in Turns, layer \in 1..MaxMixedSize :
          TurnLayer(who, turn, layer)
    \/ \E who \in {"a", "b"}, axis \in CubeAxes, turn_dir \in TurnDirs :
          RotateWholeCube(who, axis, turn_dir)
    \/ \E x \in {"a", "b"} : \E y \in {"a", "b"} \ {x} : HammingDistance(x, y)

SpecMixed == InitMixed /\ [][NextMixed]_vars

GoalsUnchanged ==
    /\ UNCHANGED << cubes, steps, pc, distance >>
    /\ SearchUnchanged

\* res.push(cube.clone())
GoalsPush ==
    /\ pc = "goals"
    /\ apsc.at \in {"ring_push", "up_push", "down_push"}
    /\ apsc' = [apsc EXCEPT !.res = Append(@, apsc.cube),
                            !.at = CASE apsc.at = "ring_push" -> "ring_spin"
                                     [] apsc.at = "up_push" -> "up_spin"
                                     [] apsc.at = "down_push" -> "down_spin"]
    /\ GoalsUnchanged

\* cube.rotate_whole_cube(CubeAxis::Z, TurnDir::Clockwise), closing an inner pass
GoalsSpin ==
    /\ pc = "goals"
    /\ apsc.at \in {"ring_spin", "up_spin", "down_spin"}
    /\ apsc' = [apsc EXCEPT !.cube = rotate_whole_cube(@, "Z", "Clockwise"),
                            !.j = @ + 1,
                            !.at = IF apsc.j + 1 < 4
                                   THEN CASE apsc.at = "ring_spin" -> "ring_push"
                                          [] apsc.at = "up_spin" -> "up_push"
                                          [] apsc.at = "down_spin" -> "down_push"
                                   ELSE CASE apsc.at = "ring_spin" -> "ring_turn"
                                          [] apsc.at = "up_spin" -> "x2"
                                          [] apsc.at = "down_spin" -> "done"]
    /\ GoalsUnchanged

\* cube.rotate_whole_cube(CubeAxis::Y, TurnDir::Clockwise), closing an outer pass
GoalsRingTurn ==
    /\ pc = "goals"
    /\ apsc.at = "ring_turn"
    /\ apsc' = [apsc EXCEPT !.cube = rotate_whole_cube(@, "Y", "Clockwise"),
                            !.i = @ + 1,
                            !.j = 0,
                            !.at = IF apsc.i + 1 < 4 THEN "ring_push" ELSE "x1"]
    /\ GoalsUnchanged

\* cube.rotate_whole_cube(CubeAxis::X, TurnDir::Clockwise), between the loops
GoalsTip ==
    /\ pc = "goals"
    /\ apsc.at \in {"x1", "x2", "x3"}
    /\ apsc' = [apsc EXCEPT !.cube = rotate_whole_cube(@, "X", "Clockwise"),
                            !.j = 0,
                            !.at = CASE apsc.at = "x1" -> "up_push"
                                     [] apsc.at = "x2" -> "x3"
                                     [] apsc.at = "x3" -> "down_push"]
    /\ GoalsUnchanged

\* all_possible_solved_cubes(size) is entered: res is empty, cube is Cube::new(size)
InitGoals ==
    /\ pc = "goals"
    /\ \E n \in 1..MaxGoalSize :
          apsc = [size |-> n, res |-> << >>, cube |-> Cube_new(n),
                  at |-> "ring_push", i |-> 0, j |-> 0]
    /\ cubes = << >> /\ steps = 0
    /\ SearchIdle /\ PairIdle

NextGoals ==
    \/ GoalsPush
    \/ GoalsSpin
    \/ GoalsRingTurn
    \/ GoalsTip

SpecGoals == InitGoals /\ [][NextGoals]_vars

\* ================================================================ scramble and idastar
CubesUnchanged ==
    UNCHANGED << cubes, steps, apsc, distance, overflow_checks, callers, cache_writes >>

\* the caller turns a layer of its cube before it scrambles
PreTurn(turn, layer) ==
    /\ pc = "new"
    /\ steps < MaxPreTurns
    /\ layer \in 1..init_cube.size
    /\ init_cube' = turn_layer(init_cube, turn, layer)
    /\ steps' = steps + 1
    /\ UNCHANGED << cubes, apsc, pc, algo, prev_turn, scramble_k, hname, root, limit,
                    node_stack, min_f, node_visited, goal, search_result, iters, cache,
                    distance, overflow_checks, callers, cache_writes >>

\* MUTANT of ScrambleCall: the size check rejects 2x2 cubes too
ScrambleCall_from_two(kk) ==
    /\ pc = "new"
    /\ cubes' = [who \in {"before"} |-> init_cube]
    /\ scramble_k' = kk
    /\ IF init_cube.size >= 2
       THEN /\ pc' = "panic"
            /\ UNCHANGED << algo, prev_turn >>
       ELSE /\ algo' = << >>
            /\ prev_turn' = None
            /\ pc' = "scramble"
    /\ UNCHANGED << init_cube, hname, root, limit, node_stack, min_f, node_visited,
                    goal, search_result, iters, cache, steps, apsc,
                    distance, overflow_checks, callers, cache_writes >>

\* cube.scramble(kk) is entered: the size check (panic! above 2x2), then the
\* locals.  cubes["before"] keeps the cube as it was at the call.
ScrambleCall(kk) ==
    /\ pc = "new"
    /\ cubes' = [who \in {"before"} |-> init_cube]
    /\ scramble_k' = kk
    /\ IF init_cube.size > 2
       THEN /\ pc' = "panic"
            /\ UNCHANGED << algo, prev_turn >>
       ELSE /\ algo' = << >>
            /\ prev_turn' = None
            /\ pc' = "scramble"
    /\ UNCHANGED << init_cube, hname, root, limit, node_stack, min_f, node_visited,
                    goal, search_result, iters, cache, steps, apsc,
                    distance, overflow_checks, callers, cache_writes >>

\* MUTANT of ScrambleTurn: the loop runs over 0..=k
ScrambleTurn_inclusive(turn) ==
    /\ pc = "scramble"
    /\ Len(algo) <= scramble_k
    /\ ~(IsSome(prev_turn) /\ is_reversed(turn, Unwrap(prev_turn)))
    /\ algo' = Append(algo, turn)
    /\ init_cube' = turn_layer(init_cube, turn, 1)
    /\ prev_turn' = Some(turn)
    /\ UNCHANGED << scramble_k, pc, hname, root, limit, node_stack, min_f, node_visited,
                    goal, search_result, iters, cache >>
    /\ CubesUnchanged

\* one iteration of the for loop of scramble: the proposal the inner loop breaks
\* with (a proposal that reverses prev_turn is drawn again), pushed and applied
ScrambleTurn(turn) ==
    /\ pc = "scramble"
    /\ Len(algo) < scramble_k
    /\ ~(IsSome(prev_turn) /\ is_reversed(turn, Unwrap(prev_turn)))
    /\ algo' = Append(algo, turn)
    /\ init_cube' = turn_layer(init_cube, turn, 1)
    /\ prev_turn' = Some(turn)
    /\ UNCHANGED << scramble_k, pc, hname, root, limit, node_stack, min_f, node_visited,
                    goal, search_result, iters, cache >>
    /\ CubesUnchanged

\* idastar(init_cube, hn, _) is entered once scramble has returned: the root,
\* its evaluation as the first limit, the counter
IdastarCall(hn) ==
    /\ pc = "scramble"
    /\ Len(algo) = scramble_k
    /\ hname' = hn
    /\ root' = get_evaluation(new_root(init_cube), hn, cache).node
    /\ limit' = get_evaluation(new_root(init_cube), hn, cache).f
    /\ cache' = get_evaluation(new_root(init_cube), hn, cache).cache
    /\ node_visited' = 0
    /\ pc' = "loop"
    /\ UNCHANGED << init_cube, algo, prev_turn, scramble_k, node_stack, min_f,
                    goal, search_result, iters >>
    /\ CubesUnchanged

\* MUTANT of IterStart: the counter is declared inside the loop
IterStart_reset_count ==
    /\ pc = "loop"
    /\ node_stack' = << clone(root) >>
    /\ min_f' = USIZE_MAX
    /\ node_visited' = 0
    /\ iters' = Append(iters, [limit |-> limit, popped |-> 0, over |-> {}])
    /\ pc' = "dfs"
    /\ UNCHANGED << init_cube, algo, prev_turn, scramble_k, hname, root, limit,
                    goal, search_result, cache >>
    /\ CubesUnchanged

\* top of the outer loop: a fresh stack holding a clone of the root
IterStart ==
    /\ pc = "loop"
    /\ node_stack' = << clone(root) >>
    /\ min_f' = USIZE_MAX
    /\ iters' = Append(iters, [limit |-> limit, popped |-> 0, over |-> {}])
    /\ pc' = "dfs"
    /\ UNCHANGED << init_cube, algo, prev_turn, scramble_k, hname, root, limit,
                    node_visited, goal, search_result, cache >>
    /\ CubesUnchanged

\* MUTANT of Pop: the goal test comes before the comparison with the limit
Pop_goal_first ==
    /\ pc = "dfs"
    /\ node_stack # << >>
    /\ IF overflow_checks THEN TRUE ELSE node_stack[Len(node_stack)].path_cost <= MaxDepth
    /\ LET top == node_stack[Len(node_stack)]
           rest == SubSeq(node_stack, 1, Len(node_stack) - 1)
           ev == get_evaluation(top, hname, cache)
       IN /\ node_visited' = node_visited + 1
          /\ cache' = ev.cache
          /\ IF ev.overflow /\ overflow_checks
             THEN /\ pc' = "panic"
                  /\ iters' = [iters EXCEPT ![Len(iters)].popped = @ + 1]
                  /\ UNCHANGED << min_f, node_stack, goal, search_result >>
             ELSE IF is_goal(ev.node)
             THEN /\ goal' = Some(ev.node)
                  /\ search_result' = Some([solution |-> Some(get_path(ev.node)),
                                            solution_len |-> Some(Len(get_path(ev.node))),
                                            node_visited |-> node_visited + 1])
                  /\ pc' = "done"
                  /\ iters' = [iters EXCEPT ![Len(iters)].popped = @ + 1]
                  /\ UNCHANGED << min_f, node_stack >>
             ELSE IF ev.f > limit
             THEN /\ min_f' = Min(min_f, ev.f)
                  /\ node_stack' = rest
                  /\ iters' = [iters EXCEPT ![Len(iters)].popped = @ + 1,
                                            ![Len(iters)].over = @ \cup {ev.f}]
                  /\ UNCHANGED << goal, search_result, pc >>
             ELSE /\ node_stack' = rest \o generate_children(ev.node)
                  /\ iters' = [iters EXCEPT ![Len(iters)].popped = @ + 1]
                  /\ UNCHANGED << min_f, goal, search_result, pc >>
    /\ UNCHANGED << init_cube, algo, prev_turn, scramble_k, hname, root, limit >>
    /\ CubesUnchanged

\* one iteration of the while loop: pop, count, evaluate, then skip, return or
\* expand.  iters records, per iteration, its limit, the number of nodes popped
\* and the over-limit evaluations met.  In a build with overflow checks an
\* addition that leaves usize panics; in a build without them the sum wraps,
\* and the descent that follows is cut off at MaxDepth.
Pop ==
    /\ pc = "dfs"
    /\ node_stack # << >>
    /\ IF overflow_checks THEN TRUE ELSE node_stack[Len(node_stack)].path_cost <= MaxDepth
    /\ LET top == node_stack[Len(node_stack)]
           rest == SubSeq(node_stack, 1, Len(node_stack) - 1)
           ev == get_evaluation(top, hname, cache)
       IN /\ node_visited' = node_visited + 1
          /\ cache' = ev.cache
          /\ IF ev.overflow /\ overflow_checks
             THEN /\ pc' = "panic"
                  /\ iters' = [iters EXCEPT ![Len(iters)].popped = @ + 1]
                  /\ UNCHANGED << min_f, node_stack, goal, search_result >>
             ELSE IF ev.f > limit
             THEN /\ min_f' = Min(min_f, ev.f)
                  /\ node_stack' = rest
                  /\ iters' = [iters EXCEPT ![Len(iters)].popped = @ + 1,
                                            ![Len(iters)].over = @ \cup {ev.f}]
                  /\ UNCHANGED << goal, search_result, pc >>
             ELSE IF is_goal(ev.node)
             THEN /\ goal' = Some(ev.node)
                  /\ search_result' = Some([solution |-> Some(get_path(ev.node)),
                                            solution_len |-> Some(Len(get_path(ev.node))),
                                            node_visited |-> node_visited + 1])
                  /\ pc' = "done"
                  /\ iters' = [iters EXCEPT ![Len(iters)].popped = @ + 1]
                  /\ UNCHANGED << min_f, node_stack >>
             ELSE /\ node_stack' = rest \o generate_children(ev.node)
                  /\ iters' = [iters EXCEPT ![Len(iters)].popped = @ + 1]
                  /\ UNCHANGED << min_f, goal, search_result, pc >>
    /\ UNCHANGED << init_cube, algo, prev_turn, scramble_k, hname, root, limit >>
    /\ CubesUnchanged

\* MUTANT of EndIter: the search gives up as soon as one iteration has failed
EndIter_one_iteration ==
    /\ pc = "dfs"
    /\ node_stack = << >>
    /\ limit' = min_f
    /\ search_result' = Some([solution |-> None, solution_len |-> None,
                              node_visited |-> node_visited])
    /\ pc' = "done"
    /\ UNCHANGED << init_cube, algo, prev_turn, scramble_k, hname, root,
                    node_stack, min_f, node_visited, goal, iters, cache >>
    /\ CubesUnchanged

\* MUTANT of EndIter: the new limit overshoots the smallest over-limit evaluation
EndIter_overshoot ==
    /\ pc = "dfs"
    /\ node_stack = << >>
    /\ limit' = min_f + 2
    /\ IF min_f + 2 > GIVE_UP_LIMIT
       THEN /\ search_result' = Some([solution |-> None, solution_len |-> None,
                                      node_visited |-> node_visited])
            /\ pc' = "done"
       ELSE /\ pc' = "loop"
            /\ UNCHANGED search_result
    /\ UNCHANGED << init_cube, algo, prev_turn, scramble_k, hname, root,
                    node_stack, min_f, node_visited, goal, iters, cache >>
    /\ CubesUnchanged

\* the stack is empty: raise the limit, give up beyond GIVE_UP_LIMIT
EndIter ==
    /\ pc = "dfs"
    /\ node_stack = << >>
    /\ limit' = min_f
    /\ IF min_f > GIVE_UP_LIMIT
       THEN /\ search_result' = Some([solution |-> None, solution_len |-> None,
                                      node_visited |-> node_visited])
            /\ pc' = "done"
       ELSE /\ pc' = "loop"
            /\ UNCHANGED search_result
    /\ UNCHANGED << init_cube, algo, prev_turn, scramble_k, hname, root,
                    node_stack, min_f, node_visited, goal, iters, cache >>
    /\ CubesUnchanged

\* the caller's fresh 2x2 cube (app.rs, the stats modules: Cube::new(2))
InitSearch ==
    /\ pc = "new"
    /\ init_cube = Cube_new(2)
    /\ cubes = << >> /\ steps = 0
    /\ algo = << >> /\ prev_turn = None /\ scramble_k = 0
    /\ hname = "none" /\ root = None /\ limit = 0 /\ node_stack = << >>
    /\ min_f = 0 /\ node_visited = 0 /\ goal = None /\ search_result = None
    /\ iters = << >> /\ cache = None
    /\ overflow_checks = TRUE
    /\ GoalsIdle /\ PairIdle /\ ThreadsIdle

NextSearch ==
    \/ \E kk \in 0..MaxScramble : ScrambleCall(kk)
    \/ \E turn \in Turns : ScrambleTurn(turn)
    \/ \E hn \in Heuristics : IdastarCall(hn)
    \/ IterStart
    \/ Pop
    \/ EndIter

Spec == InitSearch /\ [][NextSearch]_vars

\* idastar called with any heuristic function: the two of search.rs, a flat
\* one or a steep one
NextAnyHeuristic ==
    \/ \E kk \in 0..MaxScramble : ScrambleCall(kk)
    \/ \E turn \in Turns : ScrambleTurn(turn)
    \/ \E hn \in Heuristics \cup FlatHeuristics \cup SteepHeuristics : IdastarCall(hn)
    \/ IterStart
    \/ Pop
    \/ EndIter

SpecAnyHeuristic == InitSearch /\ [][NextAnyHeuristic]_vars

\* idastar in either build of the program, with single_l0 or with a heuristic
\* whose value is at the top of usize
InitBuilds ==
    /\ pc = "new"
    /\ init_cube = Cube_new(2)
    /\ cubes = << >> /\ steps = 0
    /\ algo = << >> /\ prev_turn = None /\ scramble_k = 0
    /\ hname = "none" /\ root = None /\ limit = 0 /\ node_stack = << >>
    /\ min_f = 0 /\ node_visited = 0 /\ goal = None /\ search_result = None
    /\ iters = << >> /\ cache = None
    /\ overflow_checks \in BOOLEAN
    /\ GoalsIdle /\ PairIdle /\ ThreadsIdle

NextBuilds ==
    \/ \E kk \in 0..MaxScramble : ScrambleCall(kk)
    \/ \E turn \in Turns : ScrambleTurn(turn)
    \/ \E hn \in {"single_l0"} \cup HugeHeuristics : IdastarCall(hn)
    \/ IterStart
    \/ Pop
    \/ EndIter

SpecBuilds == InitBuilds /\ [][NextBuilds]_vars

\* ---------------------------------------------------------------- all_l0 from several threads
\* all_l0 keeps the 24 goal cubes in a `static mut` that it reads and assigns
\* inside `unsafe`, without a lock.  Each thread goes through all_l0 one
\* memory access at a time: the test of the static ("check"), the assignment
\* that drops the old value and stores a new Vec ("init"), taking the
\* iterator of the stored Vec ("take"), and the for loop over it ("iter").
\* buf is the assignment whose Vec the iterator points into; the Vec of an
\* earlier assignment has been dropped.
Threads == 1..MaxThreads

\* what a read through an iterator into a dropped Vec may yield besides the
\* old contents: any distance
DanglingReads == {0, 24}

CallerUnchanged ==
    UNCHANGED << cubes, steps, init_cube, algo, prev_turn, scramble_k, hname, root, limit,
                 node_stack, min_f, node_visited, goal, search_result, iters, apsc,
                 distance, overflow_checks, pc >>

\* thread t enters all_l0(&cube)
AllL0Call(t) ==
    /\ pc = "threads"
    /\ t \notin DOMAIN callers
    /\ callers' = callers @@ (t :> [at |-> "check", buf |-> 0, pos |-> 0,
                                     min_dist |-> USIZE_MAX])
    /\ UNCHANGED << cache, cache_writes >>
    /\ CallerUnchanged

\* if let Some(cache) = &ALL_POSSIBLE_SOLVED_CUBES_CACHE { cache.iter() } else ..
CacheCheck(t) ==
    /\ pc = "threads"
    /\ t \in DOMAIN callers
    /\ callers[t].at = "check"
    /\ callers' = [callers EXCEPT ![t] =
                      IF IsSome(cache)
                      THEN [@ EXCEPT !.at = "iter", !.buf = cache_writes, !.pos = 1]
                      ELSE [@ EXCEPT !.at = "init"]]
    /\ UNCHANGED << cache, cache_writes >>
    /\ CallerUnchanged

\* ALL_POSSIBLE_SOLVED_CUBES_CACHE = Some(Cube::all_possible_solved_cubes(2))
CacheInit(t) ==
    /\ pc = "threads"
    /\ t \in DOMAIN callers
    /\ callers[t].at = "init"
    /\ cache' = Some(all_possible_solved_cubes(2))
    /\ cache_writes' = cache_writes + 1
    /\ callers' = [callers EXCEPT ![t].at = "take"]
    /\ CallerUnchanged

\* ALL_POSSIBLE_SOLVED_CUBES_CACHE.as_ref().unwrap().iter()
CacheTake(t) ==
    /\ pc = "threads"
    /\ t \in DOMAIN callers
    /\ callers[t].at = "take"
    /\ callers' = [callers EXCEPT ![t] =
                      [@ EXCEPT !.at = "iter", !.buf = cache_writes, !.pos = 1]]
    /\ UNCHANGED << cache, cache_writes >>
    /\ CallerUnchanged

\* one pass of `for goal_state in apsc_iter`.  An iterator into a dropped Vec
\* reads freed memory: the thread crashes, or it reads the old contents or
\* anything else.
GoalStep(t) ==
    /\ pc = "threads"
    /\ t \in DOMAIN callers
    /\ callers[t].at = "iter"
    /\ callers[t].pos <= Len(Unwrap(cache))
    /\ LET stored == hamming_distance(cubes["a"], Unwrap(cache)[callers[t].pos])
       IN IF callers[t].buf = cache_writes
          THEN callers' = [callers EXCEPT ![t].min_dist = Min(@, stored), ![t].pos = @ + 1]
          ELSE \/ callers' = [callers EXCEPT ![t].at = "crashed"]
               \/ \E read \in {stored} \cup DanglingReads :
                     callers' = [callers EXCEPT ![t].min_dist = Min(@, read), ![t].pos = @ + 1]
    /\ UNCHANGED << cache, cache_writes >>
    /\ CallerUnchanged

\* the loop is over: min_dist as f32 / 12.0 is returned
AllL0Return(t) ==
    /\ pc = "threads"
    /\ t \in DOMAIN callers
    /\ callers[t].at = "iter"
    /\ callers[t].pos > Len(Unwrap(cache))
    /\ callers' = [callers EXCEPT ![t].at = "done"]
    /\ UNCHANGED << cache, cache_writes >>
    /\ CallerUnchanged

\* a process whose threads share one 2x2 cube, fresh or turned once, and have
\* not called all_l0 yet
InitThreads ==
    /\ pc = "threads"
    /\ steps = 0
    /\ \E c \in {Cube_new(2), turn_layer(Cube_new(2), Turn_new("Right", "Clockwise"), 1)} :
          cubes = [who \in {"a"} |-> c]
    /\ SearchIdle /\ GoalsIdle /\ PairIdle

NextThreads ==
    \/ \E t \in Threads : AllL0Call(t)
    \/ \E t \in Threads : CacheCheck(t)
    \/ \E t \in Threads : CacheInit(t)
    \/ \E t \in Threads : CacheTake(t)
    \/ \E t \in Threads : GoalStep(t)
    \/ \E t \in Threads : AllL0Return(t)

SpecThreads == InitThreads /\ [][NextThreads]_vars

\* scramble on its own: a fresh cube of any size 1..MaxSize, turned at most
\* MaxPreTurns times by the caller, then scrambled
InitScramble ==
    /\ pc = "new"
    /\ \E n \in 1..MaxSize : init_cube = Cube_new(n)
    /\ cubes = << >> /\ steps = 0
    /\ algo = << >> /\ prev_turn = None /\ scramble_k = 0
    /\ hname = "none" /\ root = None /\ limit = 0 /\ node_stack = << >>
    /\ min_f = 0 /\ node_visited = 0 /\ goal = None /\ search_result = None
    /\ iters = << >> /\ cache = None
    /\ overflow_checks = TRUE
    /\ GoalsIdle /\ PairIdle /\ ThreadsIdle

NextScramble ==
    \/ \E turn \in Turns, layer \in 1..MaxSize : PreTurn(turn, layer)
    \/ \E kk \in 0..MaxScramble : ScrambleCall(kk)
    \/ \E turn \in Turns : ScrambleTurn(turn)

SpecScramble == InitScramble /\ [][NextScramble]_vars

\* ================================================================ claims

\* idastar has returned / has returned a solution / the solution
Returned == pc = "done" /\ IsSome(search_result)
Found == Returned /\ IsSome(Unwrap(search_result).solution)
Solution == Unwrap(Unwrap(search_result).solution)

\* the j-th node up the parent chain of n (n itself for j = 0)
RECURSIVE Ancestor(_, _)
Ancestor(n, j) == IF j = 0 THEN n ELSE Ancestor(Unwrap(n.parent), j - 1)

\* C1: whenever idastar returns solution = Some(s): s applied in order to the
\* initial cube gives a solved cube, solution_len = Some(Len(s)), and s lists
\* the prev_action values down the parent chain from the root to the goal node.
C1_SolutionSolves ==
    Found =>
        /\ is_solved(apply_algorithm(init_cube, Solution))
        /\ Unwrap(search_result).solution_len = Some(Len(Solution))
        /\ IsSome(goal)
        /\ Unwrap(goal).path_cost = Len(Solution)
        /\ ~IsSome(Ancestor(Unwrap(goal), Len(Solution)).parent)
        /\ Ancestor(Unwrap(goal), Len(Solution)).state = init_cube
        /\ \A i \in 1..Len(Solution) :
              /\ Ancestor(Unwrap(goal), Len(Solution) - i).prev_action = Some(Solution[i])
              /\ Ancestor(Unwrap(goal), Len(Solution) - i).state =
                    turn_layer(Ancestor(Unwrap(goal), Len(Solution) - i + 1).state,
                               Solution[i], 1)

\* a search with all_l0 that returned a two-turn solution of a two-turn scramble
C1_Witness ==
    /\ Found /\ hname = "all_l0" /\ Len(algo) = 2
    /\ Len(Solution) = 2 /\ Solution[1].face_dir # Solution[2].face_dir
    /\ ~is_solved(init_cube)
    /\ is_solved(apply_algorithm(init_cube, Solution))

\* C2 as stated: for a cube scrambled by scramble(k), k >= 1 within the bounds,
\* idastar returns a non-empty solution whose application solves the cube.
C2_NonEmptySolution ==
    (Returned /\ scramble_k >= 1) =>
        /\ Found
        /\ Solution # << >>
        /\ is_solved(apply_algorithm(init_cube, Solution))

\* C2 amended: for a cube scrambled by scramble(k), idastar returns a solution
\* whose application solves the cube; the solution is empty exactly when the
\* scrambled cube already satisfies is_solved (k = 0, or a scramble such as
\* L R' that only re-orients the whole cube).
C2_SolutionUnlessSolved ==
    Returned =>
        /\ Found
        /\ is_solved(apply_algorithm(init_cube, Solution))
        /\ (Solution = << >>) <=> is_solved(init_cube)

\* a two-turn scramble that is not solved, answered by a non-empty solution
C2_Witness ==
    /\ Found /\ scramble_k = 2 /\ Len(algo) = 2 /\ hname = "single_l0"
    /\ ~is_solved(init_cube)
    /\ Solution # << >>
    /\ is_solved(apply_algorithm(init_cube, Solution))

\* the turn sequences shorter than n
ShorterAlgos(n) == IF n = 0 THEN {} ELSE Algos(n - 1)

\* C3: the solution idastar returns (with single_l0 and with all_l0) has
\* minimum length: no shorter sequence of quarter-turns of any of the six faces
\* brings the initial cube to a state satisfying is_solved.
C3_Optimal ==
    Found =>
        \A s \in ShorterAlgos(Len(Solution)) : ~is_solved(apply_algorithm(init_cube, s))

\* a two-turn solution found only in a later iteration, after the limit was raised
C3_Witness ==
    /\ Found /\ Len(Solution) = 2 /\ Len(iters) >= 2
    /\ node_visited > 7
    /\ is_solved(apply_algorithm(init_cube, Solution))

Opposite(face_dir) ==
    CASE face_dir = "Up" -> "Down" [] face_dir = "Down" -> "Up"
      [] face_dir = "Right" -> "Left" [] face_dir = "Left" -> "Right"
      [] face_dir = "Front" -> "Back" [] face_dir = "Back" -> "Front"

\* the turn with the same face and the reversed direction
ReversedTurn(turn) == Turn_new(turn.face_dir, get_reversed(turn.turn_dir))

\* C4 as stated: after exactly one turn T on a fresh cube, idastar returns the
\* one-turn solution << reverse of T >>.
C4_ReverseOfT ==
    (Returned /\ scramble_k = 1) =>
        /\ Found
        /\ Solution = << ReversedTurn(algo[1]) >>

\* C4 amended: after exactly one turn T on a fresh cube, idastar returns a
\* solution of length 1: the reverse of T when T turns Right, Up or Front, and
\* the turn of the opposite face (Right for Left, Up for Down, Front for Back)
\* in the direction opposite to T's when T turns Left, Down or Back.
C4_SingleTurnUndone ==
    (Returned /\ scramble_k = 1) =>
        /\ Found
        /\ Solution =
              << IF is_positive(algo[1].face_dir)
                 THEN ReversedTurn(algo[1])
                 ELSE Turn_new(Opposite(algo[1].face_dir), get_reversed(algo[1].turn_dir)) >>

\* the scramble L answered by R'
C4_Witness ==
    /\ Found /\ scramble_k = 1
    /\ algo = << Turn_new("Left", "Clockwise") >>
    /\ Solution = << Turn_new("Right", "CounterClockwise") >>
    /\ is_solved(apply_algorithm(init_cube, Solution))

\* C5: from the freshly constructed cube idastar, with either heuristic, pops
\* exactly one node and returns solution = Some(<< >>), solution_len = Some(0),
\* node_visited = 1; no iteration ends with an empty stack.
C5_SolvedCube ==
    (scramble_k = 0 /\ pc \in {"loop", "dfs", "done"}) =>
        /\ node_visited <= 1
        /\ pc = "dfs" => node_stack # << >>
        /\ pc = "done" =>
              search_result = Some([solution |-> Some(<< >>), solution_len |-> Some(0),
                                    node_visited |-> 1])

\* the search on the fresh cube has returned, with all_l0
C5_Witness ==
    /\ Returned /\ scramble_k = 0 /\ hname = "all_l0"
    /\ init_cube = Cube_new(2)
    /\ Unwrap(search_result).node_visited = 1

\* C8 as stated: for every cube reached by quarter-turns from the fresh cube,
\* ceil(single_l0) and ceil(all_l0) are at most the length of every turn
\* sequence that brings the cube to a state satisfying is_solved (so both are 0
\* where is_solved holds).
C8_Admissible ==
    (pc = "scramble" /\ Len(algo) = scramble_k) =>
        \A s \in Algos(MaxScramble) :
            is_solved(apply_algorithm(init_cube, s)) =>
                /\ ceil_usize(single_l0(init_cube)) <= Len(s)
                /\ ceil_usize(all_l0(init_cube, cache)) <= Len(s)

\* the number of (direction, row, column) positions at which the faces the two
\* cubes show in that direction differ
DirectionMismatches(x, y) ==
    Cardinality({p \in FaceDirs \X (1..x.size) \X (1..x.size) :
                    get_face(x, p[1])[p[2]][p[3]] # get_face(y, p[1])[p[2]][p[3]]})

\* C9 as stated: for two cubes of the same size, also after rotate_whole_cube,
\* hamming_distance counts the positions at which the faces at the same
\* direction differ.
C9_HammingByDirection ==
    pc = "pair" =>
        hamming_distance(cubes["a"], cubes["b"]) = DirectionMismatches(cubes["a"], cubes["b"])

\* C10: for cubes of equal size, hamming_distance(c, c) = 0 and
\* hamming_distance(a, b) = hamming_distance(b, a).
C10_HammingSymmetric ==
    pc = "pair" =>
        /\ hamming_distance(cubes["a"], cubes["a"]) = 0
        /\ hamming_distance(cubes["b"], cubes["b"]) = 0
        /\ hamming_distance(cubes["a"], cubes["b"]) = hamming_distance(cubes["b"], cubes["a"])

\* two differently turned 2x2 cubes at a positive distance
C10_Witness ==
    /\ pc = "pair" /\ steps = 2 /\ cubes["a"].size = 2
    /\ ~is_solved(cubes["a"]) /\ ~is_solved(cubes["b"])
    /\ cubes["a"].faces # cubes["b"].faces
    /\ hamming_distance(cubes["a"], cubes["b"]) > 0
    /\ hamming_distance(cubes["b"], cubes["a"]) > 0

\* the same turn applied four times
Turn4(c, turn, layer) ==
    turn_layer(turn_layer(turn_layer(turn_layer(c, turn, layer), turn, layer), turn, layer),
               turn, layer)

\* C6: for every cube size, every cube state reachable by turns (and whole-cube
\* rotations), every turn and every layer in 1..size, four applications of
\* turn_layer(turn, layer) give back all six face grids and dir_order exactly.
C6_FourTurnsIdentity ==
    pc = "cube" =>
        \A turn \in Turns : \A layer \in 1..cubes["a"].size :
            Turn4(cubes["a"], turn, layer) = cubes["a"]

\* a scrambled cube of size 3 on which a layer-2 turn, applied once, twice and
\* three times, gives three states different from the start
C6_Witness ==
    /\ pc = "cube" /\ steps >= 2 /\ cubes["a"].size = 3
    /\ ~is_solved(cubes["a"])
    /\ LET c == cubes["a"]
           t == Turn_new("Left", "CounterClockwise")
           c1 == turn_layer(c, t, 2)
           c2 == turn_layer(c1, t, 2)
           c3 == turn_layer(c2, t, 2)
       IN c1 # c /\ c2 # c /\ c3 # c /\ turn_layer(c3, t, 2) = c

\* the sequence reversed, each turn's direction reversed
ReversedAlgo(turns) ==
    Owned1([i \in 1..Len(turns) |-> ReversedTurn(turns[Len(turns) + 1 - i])], Len(turns))

Sexy == << Turn_new("Right", "Clockwise"), Turn_new("Up", "Clockwise"),
           Turn_new("Right", "CounterClockwise"), Turn_new("Up", "CounterClockwise") >>

\* C7: in every reachable cube state, a turn followed by the turn of the same
\* face in the reversed direction restores the exact state (at every layer), and
\* apply_algorithm(s) followed by apply_algorithm of s reversed with every
\* direction reversed restores it too, for every s up to MaxAlgo turns and for
\* s = R U R' U'.
C7_TurnThenReverse ==
    pc = "cube" =>
        /\ \A turn \in Turns : \A layer \in 1..cubes["a"].size :
              turn_layer(turn_layer(cubes["a"], turn, layer), ReversedTurn(turn), layer)
                  = cubes["a"]
        /\ \A s \in Algos(MaxAlgo) :
              apply_algorithm(apply_algorithm(cubes["a"], s), ReversedAlgo(s)) = cubes["a"]
        /\ apply_algorithm(apply_algorithm(cubes["a"], Sexy), ReversedAlgo(Sexy)) = cubes["a"]

\* a scrambled size-2 cube that R U R' U' changes and U R U' R' brings back
C7_Witness ==
    /\ pc = "cube" /\ steps >= 1 /\ cubes["a"].size = 2
    /\ ~is_solved(cubes["a"])
    /\ apply_algorithm(cubes["a"], Sexy) # cubes["a"]
    /\ ReversedAlgo(Sexy) = << Turn_new("Up", "Clockwise"), Turn_new("Right", "Clockwise"),
                               Turn_new("Up", "CounterClockwise"),
                               Turn_new("Right", "CounterClockwise") >>
    /\ apply_algorithm(apply_algorithm(cubes["a"], Sexy), ReversedAlgo(Sexy)) = cubes["a"]

\* all_possible_solved_cubes has returned / what it returned
GoalsReturned == pc = "goals" /\ apsc.at = "done"
GoalsRes == apsc.res

\* the colour a cube shows at a face direction (its faces are single-coloured here)
ColourAt(c, d) == get_face(c, d)[1][1]

\* the two cubes show a different colour at some face direction
DifferentlyOriented(x, y) == \E d \in FaceDirs : ColourAt(x, d) # ColourAt(y, d)

\* C11: all_possible_solved_cubes(size) returns exactly 24 cubes, each
\* satisfying is_solved, no two of them showing the same colour at every one of
\* the six face directions: their dir_order are 24 different permutations, each
\* of the 6 faces shown at Front by exactly 4 of them.
C11_TwentyFourOrientations ==
    GoalsReturned =>
        /\ Len(GoalsRes) = 24
        /\ \A m \in 1..24 : is_solved(GoalsRes[m]) /\ GoalsRes[m].size = apsc.size
        /\ \A m \in 1..24 :
              {GoalsRes[m].dir_order[x] : x \in 1..6} = FaceDirs
        /\ \A m \in 1..24 : \A n \in 1..24 :
              m # n => /\ DifferentlyOriented(GoalsRes[m], GoalsRes[n])
                       /\ GoalsRes[m].dir_order # GoalsRes[n].dir_order
        /\ \A col \in Colors :
              Cardinality({m \in 1..24 : ColourAt(GoalsRes[m], "Front") = col}) = 4
        /\ GoalsRes = all_possible_solved_cubes(apsc.size)

\* the call on a 3x3 cube has returned its 24 cubes, the last showing at Front
\* another colour than the first
C11_Witness ==
    /\ GoalsReturned /\ apsc.size = 3 /\ Len(GoalsRes) = 24
    /\ ColourAt(GoalsRes[24], "Front") # ColourAt(GoalsRes[1], "Front")
    /\ is_solved(GoalsRes[24])

\* C12 as stated: two members of all_possible_solved_cubes(size) that are
\* differently oriented are at a positive hamming_distance, and each member is
\* at distance 0 from itself.
C12_OrientationsApart ==
    GoalsReturned =>
        \A m \in 1..Len(GoalsRes) : \A n \in 1..Len(GoalsRes) :
            /\ hamming_distance(GoalsRes[m], GoalsRes[m]) = 0
            /\ DifferentlyOriented(GoalsRes[m], GoalsRes[n])
                  => hamming_distance(GoalsRes[m], GoalsRes[n]) > 0

\* scramble has returned (its loop has made k passes)
ScrambleReturned == pc = "scramble" /\ Len(algo) = scramble_k

\* C13: on a cube of size at most 2, scramble(k) returns exactly k turns, none
\* of them the reverse (same face, opposite direction) of the turn just before
\* it, and the cube after scramble is the cube before scramble with the
\* returned turns applied in order at layer 1.
C13_ScrambleSequence ==
    pc = "scramble" =>
        /\ cubes["before"].size <= 2
        /\ Len(algo) <= scramble_k
        /\ \A n \in 1..(Len(algo) - 1) :
              ~(algo[n + 1].face_dir = algo[n].face_dir /\ algo[n + 1].turn_dir # algo[n].turn_dir)
        /\ init_cube = apply_algorithm(cubes["before"], algo)

\* scramble(2) of a cube that had been turned before has returned two turns
\* of the same face
C13_Witness ==
    /\ ScrambleReturned /\ scramble_k = 2 /\ steps = 1
    /\ cubes["before"] # Cube_new(2) /\ cubes["before"].size = 2
    /\ algo[1] = algo[2]
    /\ init_cube # cubes["before"]

\* C14: scramble(0) returns an empty turn sequence and leaves the cube (all
\* face grids and dir_order) unchanged.
C14_ScrambleZero ==
    (pc = "scramble" /\ scramble_k = 0) =>
        /\ ScrambleReturned
        /\ algo = << >>
        /\ init_cube = cubes["before"]

\* scramble(0) has returned on an unsolved 2x2 cube
C14_Witness ==
    /\ ScrambleReturned /\ scramble_k = 0 /\ algo = << >>
    /\ init_cube.size = 2 /\ ~is_solved(init_cube)
    /\ init_cube = cubes["before"]

\* C20: scramble(k) panics exactly on cubes larger than 2x2, for every k
\* (k = 0 included) and before any turn is applied; on cubes of size 1 or 2
\* neither the call nor any of its turns panics.
C20_ScrambleSizeLimit ==
    pc \in {"scramble", "panic"} =>
        /\ (pc = "panic") <=> (cubes["before"].size > 2)
        /\ pc = "panic" => (algo = << >> /\ init_cube = cubes["before"])
        /\ pc = "scramble" => init_cube # Panic

\* scramble(0) has panicked on a 3x3 cube that had been turned before
C20_Witness ==
    /\ pc = "panic" /\ scramble_k = 0 /\ steps = 1
    /\ init_cube.size = 3 /\ ~is_solved(init_cube)
    /\ init_cube = cubes["before"]

\* C15: is_solved is true exactly when each of the six face grids holds one
\* repeated colour, whichever colour that is; the freshly constructed cube of
\* every size satisfies it.
C15_SolvedIffSingleColours ==
    pc = "cube" =>
        /\ is_solved(cubes["a"]) <=>
              \A f \in 1..6 : \E col \in Colors :
                 \A r \in 1..cubes["a"].size : \A c \in 1..cubes["a"].size :
                    cubes["a"].faces[f][r][c] = col
        /\ steps = 0 => is_solved(cubes["a"])
        /\ \A n \in 1..MaxSize : is_solved(Cube_new(n))

\* a 2x2 cube after two turns whose faces are single-coloured again, in other
\* colours than on the fresh cube
C15_Witness ==
    /\ pc = "cube" /\ steps = 2 /\ cubes["a"].size = 2
    /\ is_solved(cubes["a"])
    /\ cubes["a"].faces # Cube_new(2).faces
    /\ cubes["a"].dir_order = Cube_new(2).dir_order

\* C19: turn_layer(turn, 0) panics and leaves every face grid and dir_order as
\* they were; turn_layer(turn, layer) with 1 <= layer <= size never panics.
C19_LayerZeroPanics ==
    /\ [](pc = "cube" =>
            \A turn \in Turns :
               /\ turn_layer(cubes["a"], turn, 0) = Panic
               /\ \A layer \in 1..cubes["a"].size :
                     turn_layer(cubes["a"], turn, layer) # Panic)
    /\ [][(pc = "cube" /\ pc' = "panic") => cubes' = cubes]_vars
    /\ [][(pc = "cube" /\ pc' = "cube" /\ steps' = steps + 1) => cubes'["a"] # Panic]_vars

\* a call with layer 0 has panicked on a 3x3 cube turned before
C19_Witness ==
    /\ pc = "panic" /\ steps = 2 /\ cubes["a"].size = 3
    /\ ~is_solved(cubes["a"])
    /\ \A turn \in Turns : turn_layer(cubes["a"], turn, 0) = Panic

\* C16 as stated: whatever the heuristic function, no depth-first iteration is
\* run with limit > GIVE_UP_LIMIT, the first one (limit = f(root)) included.
C16_NoIterationBeyondLimit ==
    /\ \A n \in 1..Len(iters) : iters[n].limit <= GIVE_UP_LIMIT
    /\ pc = "dfs" => limit <= GIVE_UP_LIMIT

\* idastar has given up / the nodes popped over all iterations
GaveUp == Returned /\ ~IsSome(goal)
RECURSIVE PoppedUpTo(_)
PoppedUpTo(n) == IF n = 0 THEN 0 ELSE iters[n].popped + PoppedUpTo(n - 1)

\* C17: when idastar gives up it returns a SearchResult with solution = None,
\* solution_len = None and node_visited the number of nodes popped over all
\* iterations, at least 1; in every result solution and solution_len are both
\* Some or both None.
C17_FailureResult ==
    Returned =>
        /\ IsSome(Unwrap(search_result).solution) <=> IsSome(Unwrap(search_result).solution_len)
        /\ Unwrap(search_result).node_visited = PoppedUpTo(Len(iters))
        /\ Unwrap(search_result).node_visited >= 1
        /\ GaveUp =>
              /\ Unwrap(search_result).solution = None
              /\ Unwrap(search_result).solution_len = None
              /\ limit > GIVE_UP_LIMIT
        /\ ~GaveUp => Found

\* the search with the flat heuristic 27 has given up after two iterations
C17_Witness ==
    /\ GaveUp /\ hname = "flat_27" /\ Len(iters) = 2
    /\ iters[1].popped = 7 /\ iters[2].popped = 37
    /\ Unwrap(search_result) = [solution |-> None, solution_len |-> None, node_visited |-> 44]

\* C18: on every 2x2 cube reached from the fresh cube by quarter-turns, idastar
\* with single_l0 never returns the failure result: the search reaches a goal
\* node, in an iteration whose limit is at most GIVE_UP_LIMIT.
C18_SingleL0Succeeds ==
    hname = "single_l0" =>
        /\ limit <= GIVE_UP_LIMIT
        /\ \A n \in 1..Len(iters) : iters[n].limit <= GIVE_UP_LIMIT
        /\ Returned =>
              /\ Found
              /\ IsSome(goal) /\ is_solved(Unwrap(goal).state)
              /\ iters[Len(iters)].limit = limit

\* a search with single_l0 that found its goal in the third iteration
C18_Witness ==
    /\ Found /\ hname = "single_l0" /\ scramble_k = 2
    /\ Len(iters) = 3 /\ limit <= GIVE_UP_LIMIT
    /\ is_solved(Unwrap(goal).state)

\* C21: hamming_distance between two cubes of different sizes panics
\* instead of returning a number and leaves both cubes as they were; between
\* cubes of equal size it never panics.
C21_HammingSizeCheck ==
    /\ [](/\ distance # None => cubes["a"].size = cubes["b"].size
          /\ pc = "panic" => cubes["a"].size # cubes["b"].size)
    /\ [][(distance' # distance \/ pc' # pc) => cubes' = cubes]_vars
    /\ [][(distance' # distance) => pc' = pc]_vars

C21_Witness ==
    /\ pc = "panic"
    /\ cubes["a"].size # cubes["b"].size
    /\ distance = None
    /\ ~is_solved(cubes["a"])
    /\ cubes["b"] # Cube_new(cubes["b"].size)

\* C29: on every cube reached by turns, turning face d in direction t and
\* then rotating the whole cube about axis a in direction r shows, at every
\* face direction, the same colour grid as rotating first and then turning
\* the face d is carried to, apply_rotation(d, a, r), in direction t.
C29_RotationCommutesWithTurn ==
    pc = "cube" =>
        \A turn \in Turns, axis \in CubeAxes, turn_dir \in TurnDirs :
            LET self == cubes["a"]
                carried == [turn EXCEPT !.face_dir = apply_rotation(turn.face_dir, axis, turn_dir)]
                turned_first == rotate_whole_cube(turn_layer(self, turn, 1), axis, turn_dir)
                rotated_first == turn_layer(rotate_whole_cube(self, axis, turn_dir), carried, 1)
            IN  \A dir \in FaceDirs : get_face(turned_first, dir) = get_face(rotated_first, dir)

\* dir_order names each of the six face directions exactly once
IsPermutation(dir_order) ==
    /\ Len(dir_order) = 6
    /\ \A d \in FaceDirs : Cardinality({i \in 1..6 : dir_order[i] = d}) = 1

\* C30: in every state reached from Cube::new by turn_layer, apply_algorithm
\* and rotate_whole_cube calls, dir_order is a permutation of the six face
\* directions, and rotate_whole_cube changes only dir_order: size and every
\* face's colour grid stay as they were.
C30_DirOrderPermutation ==
    pc = "cube" =>
        /\ IsPermutation(cubes["a"].dir_order)
        /\ \A axis \in CubeAxes, turn_dir \in TurnDirs :
              LET rotated == rotate_whole_cube(cubes["a"], axis, turn_dir)
              IN  /\ IsPermutation(rotated.dir_order)
                  /\ rotated.dir_order # cubes["a"].dir_order
                  /\ rotated.faces = cubes["a"].faces
                  /\ rotated.size = cubes["a"].size

C30_Witness ==
    /\ pc = "cube"
    /\ steps = MaxSteps
    /\ ~is_solved(cubes["a"])
    /\ cubes["a"].dir_order # ALL_FACE_DIR

\* a node and the nodes up its parent chain
RECURSIVE Chain(_)
Chain(n) == {n} \cup (IF IsSome(n.parent) THEN Chain(Unwrap(n.parent)) ELSE {})

\* the node the next pop evaluates, as get_evaluation leaves it
PoppedNode == get_evaluation(node_stack[Len(node_stack)], hname, cache).node

\* the nodes of the search tree that exist: those on the stack, the one being
\* popped, the goal, and their ancestors
LiveNodes ==
    UNION ({Chain(node_stack[i]) : i \in 1..Len(node_stack)}
           \cup {Chain(PoppedNode) : i \in {1} \cap 1..Len(node_stack)}
           \cup {Chain(Unwrap(goal)) : i \in {1} \cap 1..Len(goal)})

\* ceil(h(n)) and f(n) = path_cost(n) + ceil(h(n)) raised to the f of the parent
CeilH(n) == ceil_usize(heuristic_function(hname, n.state, cache))
RECURSIVE MonotoneF(_)
MonotoneF(n) ==
    IF IsSome(n.parent)
    THEN LET own == n.path_cost + CeilH(n)
             up == MonotoneF(Unwrap(n.parent))
         IN IF own >= up THEN own ELSE up
    ELSE CeilH(n)

\* C22: every non-root node n with parent p that has a stored evaluation has
\* f(n) = max(path_cost(n) + ceil(h(n)), f(p)); so the evaluation does not
\* decrease from parent to child along a chain, and f(n) >= path_cost(n).
C22_MonotoneEvaluation ==
    pc \in {"dfs", "done"} =>
        \A n \in LiveNodes :
            IsSome(n.parent) /\ IsSome(n.evaluation) =>
                LET p == Unwrap(n.parent)
                IN  /\ Unwrap(n.evaluation) = MonotoneF(n)
                    /\ Unwrap(n.evaluation) >= MonotoneF(p)
                    /\ IsSome(p.evaluation) => Unwrap(p.evaluation) = MonotoneF(p)
                    /\ Unwrap(n.evaluation) >= n.path_cost

\* a stored evaluation that is the parent's: the node's own path_cost + ceil(h)
\* is smaller
C22_Witness ==
    /\ pc = "dfs"
    /\ \E n \in LiveNodes :
          /\ IsSome(n.parent) /\ IsSome(n.evaluation)
          /\ n.path_cost = 2
          /\ n.path_cost + CeilH(n) < Unwrap(n.evaluation)
          /\ Unwrap(n.evaluation) = MonotoneF(Unwrap(n.parent))

\* C23: for every node of the search tree, the root included, the heuristic
\* function runs on that node's state at most once during an idastar call:
\* later get_evaluation calls on the node return the stored value.
C23_HeuristicOncePerNode ==
    pc \in {"dfs", "done"} => \A n \in LiveNodes : n.h_calls <= 1

\* the smallest member of a non-empty set of numbers
Least(s) == CHOOSE x \in s : \A y \in s : x <= y

\* C24: the limit of the first iteration is ceil(h(root)); the limits of
\* successive iterations are strictly increasing; after an iteration that
\* empties the stack without a goal some popped node had an evaluation above
\* the old limit, and the next limit is the least such evaluation.
C24_LimitSequence ==
    pc \in {"loop", "dfs", "done"} =>
        /\ \A n \in 1..Len(iters) :
              /\ n = 1 => iters[n].limit = CeilH(new_root(init_cube))
              /\ n > 1 => /\ iters[n - 1].over # {}
                          /\ iters[n].limit = Least(iters[n - 1].over)
                          /\ iters[n].limit > iters[n - 1].limit
              /\ \A x \in iters[n].over : x > iters[n].limit
        /\ iters = << >> => limit = CeilH(new_root(init_cube))
        /\ iters # << >> /\ limit # iters[Len(iters)].limit =>
              /\ iters[Len(iters)].over # {}
              /\ limit = Least(iters[Len(iters)].over)
              /\ limit > iters[Len(iters)].limit
        /\ pc = "dfs" /\ node_stack = << >> =>
              /\ iters[Len(iters)].over # {}
              /\ min_f = Least(iters[Len(iters)].over)

\* a third iteration has begun, and the second met over-limit evaluations of
\* different sizes
C24_Witness ==
    /\ pc = "dfs"
    /\ Len(iters) = 3
    /\ Cardinality(iters[2].over) >= 2
    /\ iters[3].limit = Least(iters[2].over)

\* the evaluation get_evaluation returns for a node
EvaluationOf(n) == get_evaluation(n, hname, cache).f

\* the nodes that have been expanded and still have descendants on the stack
ExpandedNodes ==
    UNION {Chain(Unwrap(node_stack[i].parent)) :
              i \in {j \in 1..Len(node_stack) : IsSome(node_stack[j].parent)}}

\* C25: a popped node whose evaluation exceeds the current limit is neither
\* expanded nor tested as a goal: it is dropped and the search goes on.  Every
\* expanded node and the node returned as goal have evaluation <= limit, every
\* expanded node has path_cost <= limit, and the root is never over the limit.
C25_OverLimitSkipped ==
    /\ [](pc \in {"dfs", "done"} =>
            /\ \A n \in ExpandedNodes : EvaluationOf(n) <= limit /\ n.path_cost <= limit
            /\ Found => EvaluationOf(Unwrap(goal)) <= limit
            /\ CeilH(new_root(init_cube)) <= limit)
    /\ [][(pc = "dfs" /\ node_stack # << >> /\ EvaluationOf(node_stack[Len(node_stack)]) > limit)
            => /\ node_stack' = SubSeq(node_stack, 1, Len(node_stack) - 1)
               /\ goal' = goal /\ search_result' = search_result /\ pc' = "dfs"]_vars

\* the node about to be popped is solved but over the limit, after another
\* over-limit node has been dropped in this iteration
C25_Witness ==
    /\ pc = "dfs" /\ node_stack # << >>
    /\ iters[Len(iters)].over # {}
    /\ EvaluationOf(node_stack[Len(node_stack)]) > limit
    /\ is_goal(node_stack[Len(node_stack)])
    /\ ExpandedNodes # {}

\* the quarter-turns of Right, Up and Front
RUFTurns == {t \in Turns : t.face_dir \in {"Right", "Up", "Front"}}

\* C26: generate_children gives the root 6 children and every other node 5:
\* one for each turn of Right, Up and Front in both directions except the
\* turn that reverses the node's own prev_action; each child has path_cost one
\* above the parent's and the parent's state with its turn applied at layer
\* 1, and holds the parent as it was.
C26_Children ==
    pc = "dfs" /\ node_stack # << >> =>
        \A n \in {PoppedNode, node_stack[1]} :
            LET res == generate_children(n)
                omitted == {t \in RUFTurns : /\ IsSome(n.prev_action)
                                             /\ t.face_dir = Unwrap(n.prev_action).face_dir
                                             /\ t.turn_dir # Unwrap(n.prev_action).turn_dir}
            IN  /\ Len(res) = IF IsSome(n.parent) THEN 5 ELSE 6
                /\ IsSome(n.parent) <=> IsSome(n.prev_action)
                /\ Cardinality(omitted) = IF IsSome(n.parent) THEN 1 ELSE 0
                /\ {Unwrap(res[i].prev_action) : i \in 1..Len(res)} = RUFTurns \ omitted
                /\ \A i \in 1..Len(res) :
                      /\ res[i].path_cost = n.path_cost + 1
                      /\ res[i].state = turn_layer(n.state, Unwrap(res[i].prev_action), 1)
                      /\ res[i].parent = Some(n)
                      /\ res[i].evaluation = None

\* a node two turns below the root is about to be expanded
C26_Witness ==
    /\ pc = "dfs" /\ node_stack # << >>
    /\ PoppedNode.path_cost = 2
    /\ EvaluationOf(PoppedNode) <= limit
    /\ ~is_goal(PoppedNode)
    /\ Len(generate_children(PoppedNode)) = 5

\* the turns the search may apply
SearchTurns == {CHILD_TURNS[i] : i \in 1..Len(CHILD_TURNS)}

\* the least number of quarter-turns from `moves`, applied at layer 1, after
\* which some cube of the set from is solved: k if one of them is solved
\* already, n + 1 if more than n turns are needed
RECURSIVE MinTurns(_, _, _, _)
MinTurns(from, moves, k, n) ==
    IF \E c \in from : is_solved(c) THEN k
    ELSE IF k >= n THEN n + 1
    ELSE MinTurns({turn_layer(c, t, 1) : c \in from, t \in moves}, moves, k + 1, n)

\* C28: for every 2x2 state reached from the fresh cube by quarter-turns of
\* any of the six faces, the least number of Right/Up/Front quarter-turns
\* after which is_solved holds exists and equals the least number of
\* quarter-turns of any face after which it holds.
C28_ThreeFacesSuffice ==
    pc = "scramble" /\ Len(algo) = scramble_k =>
        /\ MinTurns({init_cube}, SearchTurns, 0, Len(algo)) <= Len(algo)
        /\ MinTurns({init_cube}, SearchTurns, 0, Len(algo))
              = MinTurns({init_cube}, Turns, 0, Len(algo))

\* a cube scrambled with turns of Left, Down and Back only that needs as many
\* turns back as it took
C28_Witness ==
    /\ pc = "scramble" /\ Len(algo) = scramble_k /\ scramble_k = MaxScramble
    /\ \A i \in 1..Len(algo) : algo[i].face_dir \in {"Left", "Down", "Back"}
    /\ MinTurns({init_cube}, SearchTurns, 0, Len(algo)) = Len(algo)

\* C27: idastar terminates for every initial cube and every heuristic with
\* finite non-negative values: it ends only by returning, with a goal or with
\* a limit above GIVE_UP_LIMIT, and in every iteration the depth is bounded by
\* the limit, as a node is expanded only if path_cost + ceil(h) <= limit.
C27_Terminates ==
    /\ pc # "panic"
    /\ Returned => Found \/ limit > GIVE_UP_LIMIT
    /\ pc \in {"dfs", "done"} =>
          \A n \in ExpandedNodes :
              /\ ~add_overflows(n.path_cost, CeilH(n))
              /\ n.path_cost + CeilH(n) <= limit

\* a grid turned by 90 degrees: clockwise, the first row becomes the last
\* column; counter-clockwise, the first row becomes the first column, upwards
QuarterTurned(grid, turn_dir) ==
    LET n == Len(grid)
    IN IF turn_dir = "Clockwise"
       THEN [r \in 1..n |-> [c \in 1..n |-> grid[n + 1 - c][r]]]
       ELSE [r \in 1..n |-> [c \in 1..n |-> grid[c][n + 1 - r]]]

\* the direction in which the band of a turn moves about the axis
EffectiveDir(turn) ==
    IF turn.face_dir \in {"Up", "Right", "Front"} THEN turn.turn_dir
    ELSE IF turn.turn_dir = "Clockwise" THEN "CounterClockwise" ELSE "Clockwise"

\* C31 as stated: turn_layer(turn, 1) rotates the turned face's own grid by
\* 90 degrees in the effective direction: the requested one for Up, Right and
\* Front, its reverse for Down, Left and Back.
C31_FaceTurnsEffective ==
    pc = "cube" =>
        \A turn \in Turns :
            get_face(turn_layer(cubes["a"], turn, 1), turn.face_dir)
                = QuarterTurned(get_face(cubes["a"], turn.face_dir), EffectiveDir(turn))

\* C31 amended: turn_layer(turn, 1) rotates the turned face's own grid by 90
\* degrees in the requested direction, for all six faces; only the band of a
\* negative face moves in the reverse direction.
C31_FaceTurnsRequested ==
    pc = "cube" =>
        \A turn \in Turns :
            get_face(turn_layer(cubes["a"], turn, 1), turn.face_dir)
                = QuarterTurned(get_face(cubes["a"], turn.face_dir), turn.turn_dir)

\* turns have left the Left face with a grid that the two directions turn
\* into different grids
C31_Witness ==
    /\ pc = "cube" /\ steps >= 1
    /\ QuarterTurned(get_face(cubes["a"], "Left"), "Clockwise")
          # QuarterTurned(get_face(cubes["a"], "Left"), "CounterClockwise")
    /\ get_face(turn_layer(cubes["a"], Turn_new("Left", "Clockwise"), 1), "Left")
          = QuarterTurned(get_face(cubes["a"], "Left"), "Clockwise")

\* the cells in which two grids of one size differ
ChangedCells(old, new) ==
    {rc \in (1..Len(old)) \X (1..Len(old)) : old[rc[1]][rc[2]] # new[rc[1]][rc[2]]}

\* all the cells that differ lie in one column (as_column) or in one row
WithinOneSlice(old, new, as_column) ==
    \E i \in 1..Len(old) :
        \A rc \in ChangedCells(old, new) : IF as_column THEN rc[2] = i ELSE rc[1] = i

\* the four faces around the axis of a turn
BandFaces(turn) == {d \in FaceDirs : get_axis(d) # get_axis(turn.face_dir)}

\* the axis along which the row index of the face at d grows
PrimaryAxis(d) ==
    CASE d = "Up" -> "Z" [] d = "Down" -> "Z"
      [] d \in {"Right", "Left", "Front", "Back"} -> "Y"

\* C32 as stated: in band rotation the slice moved on a band face is a column
\* when the face's primary (row-index) axis equals the rotation axis, and a
\* row otherwise.
C32_ColumnWhenAxesEqual ==
    pc = "cube" =>
        \A turn \in Turns, layer \in 1..cubes["a"].size :
            \A d \in BandFaces(turn) :
                WithinOneSlice(get_face(cubes["a"], d),
                               get_face(turn_layer(cubes["a"], turn, layer), d),
                               PrimaryAxis(d) = get_axis(turn.face_dir))

\* C32 amended: the slice moved on a band face is a row when the face's
\* primary (row-index) axis equals the rotation axis, and a column otherwise.
C32_RowWhenAxesEqual ==
    pc = "cube" =>
        \A turn \in Turns, layer \in 1..cubes["a"].size :
            \A d \in BandFaces(turn) :
                WithinOneSlice(get_face(cubes["a"], d),
                               get_face(turn_layer(cubes["a"], turn, layer), d),
                               PrimaryAxis(d) # get_axis(turn.face_dir))

\* after a turn, a Front turn changes two cells of one row of Up (its primary
\* axis is the rotation axis) and two cells of one column of Right
C32_Witness ==
    /\ pc = "cube" /\ steps >= 1 /\ cubes["a"].size >= 2
    /\ LET turn == Turn_new("Front", "Clockwise")
           after == turn_layer(cubes["a"], turn, 1)
           up == ChangedCells(get_face(cubes["a"], "Up"), get_face(after, "Up"))
           right == ChangedCells(get_face(cubes["a"], "Right"), get_face(after, "Right"))
       IN /\ \E x \in up : \E y \in up : x[1] = y[1] /\ x[2] # y[2]
          /\ \E x \in right : \E y \in right : x[2] = y[2] /\ x[1] # y[1]

\* C33: a quarter-turn changes at most 12 stickers of a 2x2 cube: for every
\* 2x2 cube c reached and every turn t, hamming_distance between c and c
\* with turn_layer(t, 1) applied is at most 12.
C33_TurnChangesAtMostTwelve ==
    /\ pc = "scramble" =>
          \A turn \in Turns :
              hamming_distance(init_cube, turn_layer(init_cube, turn, 1)) <= 12
    /\ pc = "dfs" /\ node_stack # << >> =>
          \A turn \in Turns :
              hamming_distance(node_stack[Len(node_stack)].state,
                               turn_layer(node_stack[Len(node_stack)].state, turn, 1)) <= 12

\* a cube of the search, three turns from the fresh cube, on which some turn
\* changes twelve stickers
C33_Witness ==
    /\ pc = "dfs" /\ node_stack # << >> /\ scramble_k = 2
    /\ node_stack[Len(node_stack)].path_cost = 1
    /\ \E turn \in Turns :
          hamming_distance(node_stack[Len(node_stack)].state,
                           turn_layer(node_stack[Len(node_stack)].state, turn, 1)) = 12

\* how often a colour occurs over the six faces of a cube
ColourCount(c, color) ==
    Cardinality({frc \in (1..6) \X (1..c.size) \X (1..c.size) :
                    c.faces[frc[1]][frc[2]][frc[3]] = color})

\* C34: turns only permute stickers: in every state reached from Cube::new(N)
\* by turn_layer calls with layers in 1..N and rotate_whole_cube calls, every
\* face grid is N x N and each of the six colours occurs exactly N * N times;
\* so whenever the cube is solved its six faces show six different colours.
C34_TurnsPermuteStickers ==
    pc = "cube" =>
        LET c == cubes["a"]
        IN  /\ Len(c.faces) = 6
            /\ \A i \in 1..6 :
                  /\ Len(c.faces[i]) = c.size
                  /\ \A r \in 1..c.size : Len(c.faces[i][r]) = c.size
            /\ \A color \in Colors : ColourCount(c, color) = c.size * c.size
            /\ is_solved(c) =>
                  \A i \in 1..6 : \A j \in 1..6 :
                      i # j => c.faces[i][1][1] # c.faces[j][1][1]

\* two turns have left a 2x2 cube solved with its colours on other faces
C34_Witness ==
    /\ pc = "cube" /\ steps = 2 /\ cubes["a"].size = 2
    /\ is_solved(cubes["a"])
    /\ cubes["a"].faces # Cube_new(2).faces
    /\ \A color \in Colors : ColourCount(cubes["a"], color) = 4

\* the row or column (1-based) of band face d that belongs to the layer: the
\* layer counts from the turned face, and the index of d along the rotation
\* axis grows in the direction get_axes_order names
SelectedIndex(d, turn, layer, size) ==
    IF \E j \in 1..2 : get_axes_order(d)[j] = Opposite(turn.face_dir)
    THEN layer ELSE size + 1 - layer

\* C35: turn_layer(turn, layer) leaves dir_order and the face opposite the
\* turned face unchanged, changes on each of the four band faces only the
\* one row or column selected for the layer, and changes the turned face's
\* own grid only when layer = 1: for layer >= 2, layer = size included,
\* neither the turned face nor the opposite face is rotated.
C35_TurnLayerFrame ==
    pc = "cube" =>
        \A turn \in Turns, layer \in 1..cubes["a"].size :
            LET c == cubes["a"]
                after == turn_layer(c, turn, layer)
            IN  /\ after.dir_order = c.dir_order
                /\ after.size = c.size
                /\ get_face(after, Opposite(turn.face_dir)) = get_face(c, Opposite(turn.face_dir))
                /\ layer >= 2 => get_face(after, turn.face_dir) = get_face(c, turn.face_dir)
                /\ \A d \in BandFaces(turn) :
                      \A rc \in ChangedCells(get_face(c, d), get_face(after, d)) :
                          IF PrimaryAxis(d) = get_axis(turn.face_dir)
                          THEN rc[1] = SelectedIndex(d, turn, layer, c.size)
                          ELSE rc[2] = SelectedIndex(d, turn, layer, c.size)

\* on a turned 3x3 cube, a turn of the innermost layer changes band faces and
\* leaves the turned face and the mixed opposite face as they were
C35_Witness ==
    /\ pc = "cube" /\ steps >= 1 /\ cubes["a"].size = 3
    /\ \E turn \in Turns :
          LET after == turn_layer(cubes["a"], turn, 3)
          IN  /\ ~is_single_color(get_face(cubes["a"], Opposite(turn.face_dir)))
              /\ after.faces # cubes["a"].faces
              /\ get_face(after, Opposite(turn.face_dir))
                    = get_face(cubes["a"], Opposite(turn.face_dir))
              /\ get_face(after, turn.face_dir) = get_face(cubes["a"], turn.face_dir)

\* C36: the 24-orientation cache of all_l0 is assigned at most once per
\* process and never modified afterwards, also when two callers are inside
\* all_l0 while the cache is still empty: in no interleaving is the cache
\* written twice or does a caller iterate over a value that has been replaced.
C36_CacheWrittenOnce ==
    pc = "threads" =>
        /\ cache_writes <= 1
        /\ \A t \in DOMAIN callers :
              /\ callers[t].at = "iter" => callers[t].buf = cache_writes
              /\ callers[t].at # "crashed"

====
